---- MODULE Spec2Model ----
(***************************************************************************)
(* Backtest execution simulator of the trading bot                         *)
(* (backend/src/services/backtestService.ts, BacktestService).             *)
(*                                                                         *)
(* executeBacktest walks a candle series with one strategy, keeps at most  *)
(* one simulated long position, and records the signal log and the closed  *)
(* trades.  The strategy is a black box that returns one signal per        *)
(* candle; every money amount is an exact rational number <<n, d>>.        *)
(*                                                                         *)
(*   Spec           one runBacktest call: lookup, fetch, executeBacktest   *)
(*   ScenarioSpec   the same machine on the stop-loss scenario's inputs    *)
(*   RouteSpec      one request to the router (backtestRoutes.ts)          *)
(*   ConcurrentSpec two runBacktest calls interleaved at the await         *)
(***************************************************************************)
EXTENDS Integers, Sequences, FiniteSets, TLC

(***************************************************************************)
(* Exact rational arithmetic: <<n, d>> with d > 0 and gcd(|n|, d) = 1.     *)
(* It stands for the JavaScript number arithmetic of the source.           *)
(***************************************************************************)
Abs(x) == IF x < 0 THEN -x ELSE x

RECURSIVE GCD(_, _)
GCD(a, b) == IF b = 0 THEN a ELSE GCD(b, a % b)

Rat(n, d) ==
  LET s == IF d < 0 THEN -1 ELSE 1
      g == GCD(Abs(n), Abs(d))
  IN  <<(s * n) \div g, (s * d) \div g>>

RInt(n) == <<n, 1>>

RMul(a, b) ==
  LET g1 == GCD(Abs(a[1]), b[2])
      g2 == GCD(Abs(b[1]), a[2])
  IN  <<(a[1] \div g1) * (b[1] \div g2), (a[2] \div g2) * (b[2] \div g1)>>

RDiv(a, b) == RMul(a, IF b[1] < 0 THEN <<-b[2], -b[1]>> ELSE <<b[2], b[1]>>)

RAdd(a, b) ==
  LET g == GCD(a[2], b[2])
      l == (a[2] \div g) * b[2]
  IN  Rat(a[1] * (l \div a[2]) + b[1] * (l \div b[2]), l)

RNeg(a) == <<-a[1], a[2]>>

RSub(a, b) == RAdd(a, RNeg(b))

\* a <= b, compared on the common denominator
RLe(a, b) ==
  LET g == GCD(a[2], b[2])
  IN  a[1] * (b[2] \div g) <= b[1] * (a[2] \div g)

RLt(a, b) == ~RLe(b, a)

RGe(a, b) == RLe(b, a)

(***************************************************************************)
(* Bounds and input sets.                                                  *)
(***************************************************************************)
MaxCandles == 4

\* close prices a candle may carry
Prices == {2, 4, 8}

\* the strategy registry: name -> window length of the instance the factory
\* builds (BaseStrategy.requiredCandles, scaled down)
Registry == [name \in {"RSI_EMA50", "BB_RSI"} |-> IF name = "BB_RSI" THEN 1 ELSE 2]

\* a name the registry does not hold
UnknownStrategyName == "NO_SUCH_STRATEGY"

\* the strategy names a request may carry
RequestedStrategies == DOMAIN Registry \cup {UnknownStrategyName}

\* the window length a strategy needs (BaseStrategy.requiredCandles)
RequiredChoices == { Registry[name] : name \in DOMAIN Registry }

\* the signals a strategy may return: <<action, confidence in hundredths>>
SignalChoices ==
  { <<"BUY", 40>>, <<"BUY", 50>>, <<"SELL", 40>>, <<"SELL", 50>>, <<"HOLD", 50>> }

\* the null value of currentPosition
NoPosition == [type |-> "null"]

\* BacktestConfig values, percentages as integers
Config(ps, sl, tp, mp, slip, mk, tk, um) ==
  [initialBalance |-> 64, positionSize |-> ps, stopLoss |-> sl, takeProfit |-> tp,
   maxPositions |-> mp, slippage |-> slip, makerFees |-> mk, takerFees |-> tk,
   useMakerFees |-> um]

Configs ==
  { Config(50, 50, 100, 1, 0, 0, 0, FALSE),
    Config(100, 60, 300, 2, 50, 0, 50, FALSE),
    Config(100, 50, 300, 1, 0, 50, 0, TRUE) }

\* what the market and the strategy may produce during a run
Feed == [prices |-> Prices, signals |-> SignalChoices]

\* the stop-loss scenario: closes around 100, a confident strategy, a 3 %
\* stop and a 10 % target without slippage, with and without a taker fee
ScenarioPrices == {95, 100, 110}

ScenarioSignals == { <<"BUY", 90>>, <<"SELL", 90>>, <<"HOLD", 0>> }

ScenarioFeed == [prices |-> ScenarioPrices, signals |-> ScenarioSignals]

ScenarioConfigs ==
  { Config(100, 3, 10, 1, 0, 0, 0, FALSE),
    Config(50, 3, 10, 1, 0, 0, 10, FALSE) }

\* the close of the warm-up candles: they only feed the strategy's window
WarmUpClose(prices) == CHOOSE p \in prices : \A q \in prices : p <= q

\* every series of closes of length req..MaxCandles
CandleSeries(prices, req) ==
  { s \in UNION { [1..n -> prices] : n \in req..MaxCandles } :
      \A k \in 1..req : s[k] = WarmUpClose(prices) }

\* the series too short for a window of req candles
ShortSeries(prices, req) ==
  UNION { [1..n -> {WarmUpClose(prices)}] : n \in 0..(req - 1) }

MkCandles(closes) ==
  [k \in 1..Len(closes) |-> [openTime |-> k, close |-> closes[k]]]

(***************************************************************************)
(* The state of one runBacktest call and of the executeBacktest call it    *)
(* makes.                                                                  *)
(***************************************************************************)
VARIABLES
  strategy,         \* request.strategy
  response,         \* what runBacktest returned, NoResponse until it returns
  fetches,          \* history: calls made to the historical-data provider
  executions,       \* history: calls made to executeBacktest
  thrown,           \* history: the message of the exception raised, or "none"
  feed,             \* the ranges the provider and the strategy draw from
  candles,          \* the candle series (argument)
  config,           \* strategy['config']
  requiredCandles,  \* strategy.getRequiredCandles()
  pc,               \* position in executeBacktest
  i,                \* loop index (0-based, as in the source)
  signals,          \* signal log
  trades,           \* closed trades
  currentPosition,  \* the open position or NoPosition
  balance,          \* running balance
  opens,            \* history: number of positions opened so far
  openIntoFinal     \* history: a position was open when the final candle began

(***************************************************************************)
(* The state of one HTTP request to the backtest router.                   *)
(***************************************************************************)
VARIABLES
  endpoint,         \* the route the request was posted to
  body,             \* req.body
  rpc,              \* position in the route handler
  backtestConfig,   \* the BacktestConfig the handler builds
  status,           \* the HTTP status sent, 0 until the handler responds
  serviceCalls      \* history: calls made to the backtest service

(***************************************************************************)
(* The state of two runBacktest calls in flight on the one service.        *)
(***************************************************************************)
VARIABLES
  calls,            \* per call: the request and what the world answers to it
  instances,        \* the strategy instances alive, by the slot that holds them
  runs              \* per call: position, starting balance, response

(***************************************************************************)
(* The state of one evaluation of the performance metrics.                 *)
(***************************************************************************)
VARIABLES
  sample,           \* the closed trades handed to calculatePerformanceMetrics
  sampleConfig,     \* the configuration they were closed under
  performance,      \* the metrics in exact arithmetic, NoResponse until computed
  numberRatios,     \* the deviation ratios in Number arithmetic
  windowReturns,    \* the out-of-sample returns handed to calculateStabilityScore
  stabilityScore,   \* the score in both arithmetics, NoResponse until computed
  riskMetrics       \* the VaR and the expected shortfall, NoResponse until computed

(***************************************************************************)
(* The state of one optimizeParameters call.                               *)
(***************************************************************************)
VARIABLES
  paramNames,       \* Object.keys(paramRanges)
  paramValues,      \* Object.values(paramRanges)
  combinations,     \* the combinations generated
  cursor,           \* the index of the combination the loop is at, 0 before it
  tested,           \* history: the config and the answer of each runBacktest call
  results,          \* the {params, performance} collected
  optimization      \* what optimizeParameters returned, NoResponse until then

(***************************************************************************)
(* The state of one runMonteCarloSimulation call.                          *)
(***************************************************************************)
VARIABLES
  originalResult,   \* what the original runBacktest call answered
  simulations,      \* the number of simulations asked for
  samples,          \* the results array, one simulated return per iteration
  monteCarlo        \* what the call returned or threw, NoResponse until then

(***************************************************************************)
(* The state of one runWalkForwardAnalysis call.                           *)
(***************************************************************************)
VARIABLES
  history,          \* the openTime of the candles the provider returned
  windowMs,         \* windowSize in milliseconds
  stepMs,           \* stepSize in milliseconds
  currentStart,     \* the start of the window the loop is at, 0 before it
  oddIteration,     \* history: the loop has been through an odd number of iterations
  periodRequests,   \* history: the in-sample and out-of-sample ranges asked for
  periods,          \* the periods pushed
  walkForward       \* what the call returned or threw, NoResponse until then

(***************************************************************************)
(* The state of one /compare request past its validation.                  *)
(***************************************************************************)
VARIABLES
  strategies,         \* req.body.strategies
  comparisonResults,  \* one entry per strategy run so far
  comparison          \* the data of the response, NoResponse until it is sent

(***************************************************************************)
(* The state of the WebSocketService and of the upstream sockets it made.  *)
(***************************************************************************)
VARIABLES
  ws,                     \* this.ws: a position in sockets, NoSocket for null
  isConnected,            \* this.isConnected
  reconnectAttempts,      \* this.reconnectAttempts
  reconnectTimeout,       \* this.reconnectTimeout: Null, "pending" or "fired"
  wss,                    \* this.wss is not null
  accountUpdateInterval,  \* this.accountUpdateInterval is not null
  sockets,                \* every upstream socket connect() has created
  disconnected,           \* history: disconnect() was called while connected
  reconnected             \* history: the timer called connect() after that

runVars == <<strategy, response, fetches, executions, thrown, feed>>

simVars == <<candles, config, requiredCandles, pc, i, signals, trades,
             currentPosition, balance, opens, openIntoFinal>>

routeVars == <<endpoint, body, rpc, backtestConfig, status, serviceCalls>>

concVars == <<calls, instances, runs>>

metricsVars == <<sample, sampleConfig, performance, numberRatios, windowReturns,
                 stabilityScore, riskMetrics>>

optimizeVars == <<paramNames, paramValues, combinations, cursor, tested, results,
                  optimization>>

monteCarloVars == <<originalResult, simulations, samples, monteCarlo>>

walkForwardVars == <<history, windowMs, stepMs, currentStart, oddIteration,
                     periodRequests, periods, walkForward>>

compareVars == <<strategies, comparisonResults, comparison>>

socketVars == <<ws, isConnected, reconnectAttempts, reconnectTimeout, wss,
                accountUpdateInterval, sockets, disconnected, reconnected>>

analysisVars == <<metricsVars, optimizeVars, monteCarloVars, walkForwardVars,
                  compareVars, socketVars>>

vars == <<runVars, simVars, routeVars, concVars, analysisVars>>

\* runBacktest has not returned yet
NoResponse == [pending |-> TRUE]

\* candles[i] of the source (0-based)
CandleAt(k) == candles[k + 1]

LastIndex == Len(candles) - 1

(***************************************************************************)
(* Fee and slippage helpers.                                               *)
(***************************************************************************)
\* variant: the taker rate is charged whatever useMakerFees says
calculateFeesTakerOnly(amount, cfg) == RMul(amount, Rat(cfg.takerFees, 100))

calculateFees(amount, cfg) ==
  LET feeRate == IF cfg.useMakerFees THEN cfg.makerFees ELSE cfg.takerFees
  IN  RMul(amount, Rat(feeRate, 100))

calculateSlippage(price, cfg) == RMul(price, Rat(cfg.slippage, 100))

applySlippage(price, isBuy, cfg) ==
  LET slippageAmount == calculateSlippage(price, cfg)
  IN  IF isBuy THEN RAdd(price, slippageAmount) ELSE RSub(price, slippageAmount)

(***************************************************************************)
(* Trading logic of the candle loop.                                       *)
(***************************************************************************)
ConfidenceThreshold == 50

\* variant: the threshold itself does not qualify
QualifiesStrict(signal) ==
  signal.action # "HOLD" /\ signal.confidence > ConfidenceThreshold

\* variant: the confidence is not looked at
QualifiesAnyConfidence(signal) == signal.action # "HOLD"

\* signal.action !== 'HOLD' && signal.confidence >= 0.5
Qualifies(signal) ==
  signal.action # "HOLD" /\ signal.confidence >= ConfidenceThreshold

\* variant: a BUY opens while fewer than maxPositions are open
CanOpenBelowMax(pos, signal) ==
  (pos = NoPosition \/ config.maxPositions > 1) /\ signal.action = "BUY"

\* variant: a BUY always opens
CanOpenAnyTime(pos, signal) == signal.action = "BUY"

\* variant: a SELL while flat opens too
CanOpenEitherSide(pos, signal) ==
  pos = NoPosition /\ signal.action \in {"BUY", "SELL"}

\* currentPosition === null && signal.action === 'BUY'
CanOpen(pos, signal) == pos = NoPosition /\ signal.action = "BUY"

\* variant: the notional is a share of the initial balance
PositionNotionalOfInitial(bal, cfg) ==
  RMul(RInt(cfg.initialBalance), Rat(cfg.positionSize, 100))

\* balance * (positionSize / 100)
PositionNotional(bal, cfg) == RMul(bal, Rat(cfg.positionSize, 100))

\* the position object built when a long is opened
OpenPosition(candle, bal, cfg) ==
  LET close == RInt(candle.close)
      positionSize == PositionNotional(bal, cfg)
      entryPriceWithSlippage == applySlippage(close, TRUE, cfg)
      entryFees == calculateFees(positionSize, cfg)
      actualPositionSize == RSub(positionSize, entryFees)
      actualQuantity == RDiv(actualPositionSize, entryPriceWithSlippage)
  IN  [entryTime |-> candle.openTime,
       exitTime |-> 0,
       entryPrice |-> close,
       exitPrice |-> RInt(0),
       type |-> "BUY",
       quantity |-> actualQuantity,
       pnl |-> RInt(0),
       pnlPercentage |-> RInt(0),
       entryFees |-> entryFees,
       exitFees |-> RInt(0),
       entrySlippage |-> RSub(entryPriceWithSlippage, close),
       exitSlippage |-> RInt(0),
       netPnl |-> RInt(0),
       netPnlPercentage |-> RInt(0),
       exitReason |-> "SIGNAL"]

\* ((currentPrice - entryPrice) / entryPrice) * 100
PriceChange(pos, candle) ==
  RMul(RDiv(RSub(RInt(candle.close), pos.entryPrice), pos.entryPrice), RInt(100))

\* variant: the exit is stamped with the open of the candle that follows
SignalTradeAtNextOpen(pos, candle, cfg) ==
  LET close == RInt(candle.close)
      exitPriceWithSlippage == applySlippage(close, FALSE, cfg)
      grossPnl == RMul(RSub(exitPriceWithSlippage, pos.entryPrice), pos.quantity)
      exitFees == calculateFees(RMul(exitPriceWithSlippage, pos.quantity), cfg)
      netPnl == RSub(RSub(grossPnl, pos.entryFees), exitFees)
      pnlPercentage ==
        RMul(RDiv(RSub(exitPriceWithSlippage, pos.entryPrice), pos.entryPrice), RInt(100))
      netPnlPercentage ==
        RMul(RDiv(netPnl, RMul(pos.entryPrice, pos.quantity)), RInt(100))
  IN  [pos EXCEPT !.exitTime = candle.openTime + 1,
                  !.exitPrice = close,
                  !.pnl = grossPnl,
                  !.pnlPercentage = pnlPercentage,
                  !.exitFees = exitFees,
                  !.exitSlippage = RSub(close, exitPriceWithSlippage),
                  !.netPnl = netPnl,
                  !.netPnlPercentage = netPnlPercentage,
                  !.exitReason = "SIGNAL"]

\* the trade written when a SELL signal closes the position
SignalTrade(pos, candle, cfg) ==
  LET close == RInt(candle.close)
      exitPriceWithSlippage == applySlippage(close, FALSE, cfg)
      grossPnl == RMul(RSub(exitPriceWithSlippage, pos.entryPrice), pos.quantity)
      exitFees == calculateFees(RMul(exitPriceWithSlippage, pos.quantity), cfg)
      netPnl == RSub(RSub(grossPnl, pos.entryFees), exitFees)
      pnlPercentage ==
        RMul(RDiv(RSub(exitPriceWithSlippage, pos.entryPrice), pos.entryPrice), RInt(100))
      netPnlPercentage ==
        RMul(RDiv(netPnl, RMul(pos.entryPrice, pos.quantity)), RInt(100))
  IN  [pos EXCEPT !.exitTime = candle.openTime,
                  !.exitPrice = close,
                  !.pnl = grossPnl,
                  !.pnlPercentage = pnlPercentage,
                  !.exitFees = exitFees,
                  !.exitSlippage = RSub(close, exitPriceWithSlippage),
                  !.netPnl = netPnl,
                  !.netPnlPercentage = netPnlPercentage,
                  !.exitReason = "SIGNAL"]

\* variant: the position is not cleared
AfterSignalCloseKept(pos) == pos

\* currentPosition = null after a signal close
AfterSignalClose(pos) == NoPosition

\* variant: the block sits in the else branch of the signal handling
ChecksStopsWhenIdle(pos) ==
  pos # NoPosition /\ ~Qualifies(signals[Len(signals)])

\* the stop-loss / take-profit block is entered when a position is open
ChecksStops(pos) == pos # NoPosition

\* variant: the stop is hit at twice the configured loss
HitStopLossAtDouble(priceChange, cfg) == RLe(priceChange, RInt(-2 * cfg.stopLoss))

\* priceChange <= -stopLoss
HitStopLoss(priceChange, cfg) == RLe(priceChange, RInt(-cfg.stopLoss))

\* priceChange >= takeProfit
HitTakeProfit(priceChange, cfg) == RGe(priceChange, RInt(cfg.takeProfit))

\* variant: the thresholds are tested before the SELL signal
CanCloseUnlessBreached(pos, signal) ==
  /\ pos # NoPosition
  /\ signal.action = "SELL"
  /\ ~HitStopLoss(PriceChange(pos, CandleAt(i)), config)
  /\ ~HitTakeProfit(PriceChange(pos, CandleAt(i)), config)

\* currentPosition !== null && signal.action === 'SELL'
CanClose(pos, signal) == pos # NoPosition /\ signal.action = "SELL"

\* the trade written by the stop-loss branch
StopLossTrade(pos, candle, cfg) ==
  LET currentPrice == RInt(candle.close)
      priceChange == PriceChange(pos, candle)
      exitPriceWithSlippage == applySlippage(currentPrice, FALSE, cfg)
      grossPnl == RMul(RSub(exitPriceWithSlippage, pos.entryPrice), pos.quantity)
      exitFees == calculateFees(RMul(exitPriceWithSlippage, pos.quantity), cfg)
      netPnl == RSub(RSub(grossPnl, pos.entryFees), exitFees)
      netPnlPercentage ==
        RMul(RDiv(netPnl, RMul(pos.entryPrice, pos.quantity)), RInt(100))
  IN  [pos EXCEPT !.exitTime = candle.openTime,
                  !.exitPrice = currentPrice,
                  !.pnl = grossPnl,
                  !.pnlPercentage = priceChange,
                  !.exitFees = exitFees,
                  !.exitSlippage = RSub(currentPrice, exitPriceWithSlippage),
                  !.netPnl = netPnl,
                  !.netPnlPercentage = netPnlPercentage,
                  !.exitReason = "STOP_LOSS"]

\* variant: the entry fee is left out of netPnl
TakeProfitTradeExitFeeOnly(pos, candle, cfg) ==
  LET currentPrice == RInt(candle.close)
      priceChange == PriceChange(pos, candle)
      exitPriceWithSlippage == applySlippage(currentPrice, FALSE, cfg)
      grossPnl == RMul(RSub(exitPriceWithSlippage, pos.entryPrice), pos.quantity)
      exitFees == calculateFees(RMul(exitPriceWithSlippage, pos.quantity), cfg)
      netPnl == RSub(grossPnl, exitFees)
      netPnlPercentage ==
        RMul(RDiv(netPnl, RMul(pos.entryPrice, pos.quantity)), RInt(100))
  IN  [pos EXCEPT !.exitTime = candle.openTime,
                  !.exitPrice = currentPrice,
                  !.pnl = grossPnl,
                  !.pnlPercentage = priceChange,
                  !.exitFees = exitFees,
                  !.exitSlippage = RSub(currentPrice, exitPriceWithSlippage),
                  !.netPnl = netPnl,
                  !.netPnlPercentage = netPnlPercentage,
                  !.exitReason = "TAKE_PROFIT"]

\* the trade written by the take-profit branch
TakeProfitTrade(pos, candle, cfg) ==
  LET currentPrice == RInt(candle.close)
      priceChange == PriceChange(pos, candle)
      exitPriceWithSlippage == applySlippage(currentPrice, FALSE, cfg)
      grossPnl == RMul(RSub(exitPriceWithSlippage, pos.entryPrice), pos.quantity)
      exitFees == calculateFees(RMul(exitPriceWithSlippage, pos.quantity), cfg)
      netPnl == RSub(RSub(grossPnl, pos.entryFees), exitFees)
      netPnlPercentage ==
        RMul(RDiv(netPnl, RMul(pos.entryPrice, pos.quantity)), RInt(100))
  IN  [pos EXCEPT !.exitTime = candle.openTime,
                  !.exitPrice = currentPrice,
                  !.pnl = grossPnl,
                  !.pnlPercentage = priceChange,
                  !.exitFees = exitFees,
                  !.exitSlippage = RSub(currentPrice, exitPriceWithSlippage),
                  !.netPnl = netPnl,
                  !.netPnlPercentage = netPnlPercentage,
                  !.exitReason = "TAKE_PROFIT"]

\* variant: the final close reuses the signal close
EndOfDataTradeAsSignal(pos, lastCandle, cfg) == SignalTrade(pos, lastCandle, cfg)

\* variant: the final close leaves exitTime as the position has it
EndOfDataTradeNoExitTime(pos, lastCandle, cfg) ==
  [SignalTrade(pos, lastCandle, cfg) EXCEPT !.exitTime = pos.exitTime,
                                            !.exitReason = "END_OF_DATA"]

\* the trade written when the loop ends with a position still open
EndOfDataTrade(pos, lastCandle, cfg) ==
  LET close == RInt(lastCandle.close)
      exitPriceWithSlippage == applySlippage(close, FALSE, cfg)
      grossPnl == RMul(RSub(exitPriceWithSlippage, pos.entryPrice), pos.quantity)
      exitFees == calculateFees(RMul(exitPriceWithSlippage, pos.quantity), cfg)
      netPnl == RSub(RSub(grossPnl, pos.entryFees), exitFees)
      pnlPercentage ==
        RMul(RDiv(RSub(exitPriceWithSlippage, pos.entryPrice), pos.entryPrice), RInt(100))
      netPnlPercentage ==
        RMul(RDiv(netPnl, RMul(pos.entryPrice, pos.quantity)), RInt(100))
  IN  [pos EXCEPT !.exitTime = lastCandle.openTime,
                  !.exitPrice = close,
                  !.pnl = grossPnl,
                  !.pnlPercentage = pnlPercentage,
                  !.exitFees = exitFees,
                  !.exitSlippage = RSub(close, exitPriceWithSlippage),
                  !.netPnl = netPnl,
                  !.netPnlPercentage = netPnlPercentage,
                  !.exitReason = "END_OF_DATA"]

\* variant: the final close tests a field that is still 0 on an open position
HasRemainingClosedOnly(pos) == pos # NoPosition /\ pos.exitTime # 0

\* if (currentPosition !== null) after the loop
HasRemaining(pos) == pos # NoPosition

(***************************************************************************)
(* executeBacktest as a state machine.                                     *)
(*   pc = "signal": loop body, from the window to the signal handling      *)
(*   pc = "stops" : loop body, the stop-loss / take-profit check           *)
(*   pc = "end"   : after the loop, before the final close                 *)
(*   pc = "done"  : the result has been returned                           *)
(* and around it runBacktest:                                              *)
(*   pc = "lookup": before the registry lookup                             *)
(*   pc = "fetch" : awaiting the historical-data provider                  *)
(*   pc = "check" : the candles are back, before the length test           *)
(*   pc = "failed": a failure response has been returned                   *)
(***************************************************************************)
\* candles.slice(0, k + 1): the window handed to analyzeSignal at index k
HistoricalCandles(k) == SubSeq(candles, 1, k + 1)

\* BaseStrategy.hasEnoughData
hasEnoughData(window, req) == Len(window) >= req

\* variant: the loop starts at the first candle
LoopStartAtZero(req) == 0

\* let i = strategy.getRequiredCandles()
LoopStart(req) == req

\* the loop test i < candles.length
LoopPc(k) == IF k < Len(candles) THEN "signal" ELSE "end"

(***************************************************************************)
(* BaseStrategy.calculatePerformanceMetrics: the empty case and the basic  *)
(* metrics.                                                                *)
(***************************************************************************)
MetricNames ==
  { "totalReturn", "totalReturnPercentage", "winRate", "totalTrades",
    "winningTrades", "losingTrades", "averageWin", "averageLoss",
    "profitFactor", "maxDrawdown", "maxDrawdownPercentage", "sharpeRatio",
    "averageTradeDuration", "totalFees", "totalSlippage", "netTotalReturn",
    "netTotalReturnPercentage", "netWinRate", "netProfitFactor",
    "netMaxDrawdown", "netMaxDrawdownPercentage", "netSharpeRatio",
    "calmarRatio", "sortinoRatio", "maxConsecutiveLosses",
    "maxConsecutiveWins", "averageConsecutiveLosses",
    "averageConsecutiveWins" }

getEmptyPerformanceMetrics == [name \in MetricNames |-> RInt(0)]

RECURSIVE SumSeq(_, _)
\* the sum of the first n entries of a sequence of numbers
SumSeq(xs, n) == IF n = 0 THEN RInt(0) ELSE RAdd(SumSeq(xs, n - 1), xs[n])

\* trs.reduce((sum, trade) => sum + f(trade), 0)
SumOver(trs, n, f(_)) == SumSeq([k \in 1..n |-> f(trs[k])], n)

\* the totals, counts and rates of a non-empty trade list
BasicMetrics(trs, cfg) ==
  LET Pnl(t) == t.pnl
      Fees(t) == RAdd(t.entryFees, t.exitFees)
      Slip(t) == RAdd(t.entrySlippage, t.exitSlippage)
      NetPnl(t) == t.netPnl
      Duration(t) == RInt(t.exitTime - t.entryTime)
      n == Len(trs)
      totalReturn == SumOver(trs, n, Pnl)
      netTotalReturn == SumOver(trs, n, NetPnl)
      winningTrades == { k \in 1..n : RLt(RInt(0), trs[k].netPnl) }
      losingTrades == { k \in 1..n : RLt(trs[k].netPnl, RInt(0)) }
      winRate == RDiv(RInt(Cardinality(winningTrades)), RInt(n))
      initial == RInt(cfg.initialBalance)
  IN  [totalReturn |-> totalReturn,
       totalReturnPercentage |-> RMul(RDiv(totalReturn, initial), RInt(100)),
       winRate |-> RMul(winRate, RInt(100)),
       totalTrades |-> RInt(n),
       winningTrades |-> RInt(Cardinality(winningTrades)),
       losingTrades |-> RInt(Cardinality(losingTrades)),
       averageTradeDuration |-> RDiv(SumOver(trs, n, Duration), RInt(n)),
       totalFees |-> SumOver(trs, n, Fees),
       totalSlippage |-> SumOver(trs, n, Slip),
       netTotalReturn |-> netTotalReturn,
       netTotalReturnPercentage |-> RMul(RDiv(netTotalReturn, initial), RInt(100)),
       netWinRate |-> RMul(winRate, RInt(100))]

\* JavaScript's non-finite numbers, as fractions over 0
NaN == <<0, 0>>

Infinity == <<1, 0>>

IsFiniteNumber(x) == x[2] # 0

\* a / b as JavaScript divides
JsDiv(a, b) ==
  IF b[1] # 0 THEN RDiv(a, b)
  ELSE IF a[1] = 0 THEN NaN
  ELSE IF a[1] > 0 THEN Infinity ELSE RNeg(Infinity)

\* a / Math.sqrt(v) for v >= 0: the square root is kept exact, the
\* quotient (n/d) / sqrt(p/q) being written <<n, d, p, q>>
JsDivSqrt(a, v) ==
  IF v[1] = 0 THEN JsDiv(a, RInt(0))
  ELSE IF a[1] = 0 THEN RInt(0)
  ELSE <<a[1], a[2], v[1], v[2]>>

\* Math.abs
RAbs(a) == <<Abs(a[1]), a[2]>>

\* trades.filter(trade => trade.netPnl > 0) and (trade.netPnl < 0)
WinningTrades(trs) == SelectSeq(trs, LAMBDA t : RLt(RInt(0), t.netPnl))

LosingTrades(trs) == SelectSeq(trs, LAMBDA t : RLt(t.netPnl, RInt(0)))

\* variant: the factor is computed whatever the average loss
ProfitFactorUnguarded(averageWin, averageLoss) == JsDiv(averageWin, averageLoss)

\* averageLoss > 0 ? averageWin / averageLoss : 0
ProfitFactor(averageWin, averageLoss) ==
  IF RLt(RInt(0), averageLoss) THEN JsDiv(averageWin, averageLoss) ELSE RInt(0)

\* averageWin, averageLoss and the profit factors, gross and net
AverageMetrics(trs) ==
  LET Pnl(t) == t.pnl
      NetPnl(t) == t.netPnl
      wins == WinningTrades(trs)
      losses == LosingTrades(trs)
      averageWin ==
        IF Len(wins) > 0
          THEN RDiv(SumOver(wins, Len(wins), Pnl), RInt(Len(wins))) ELSE RInt(0)
      averageLoss ==
        IF Len(losses) > 0
          THEN RAbs(RDiv(SumOver(losses, Len(losses), Pnl), RInt(Len(losses))))
          ELSE RInt(0)
      netAverageWin ==
        IF Len(wins) > 0
          THEN RDiv(SumOver(wins, Len(wins), NetPnl), RInt(Len(wins))) ELSE RInt(0)
      netAverageLoss ==
        IF Len(losses) > 0
          THEN RAbs(RDiv(SumOver(losses, Len(losses), NetPnl), RInt(Len(losses))))
          ELSE RInt(0)
  IN  [averageWin |-> averageWin,
       averageLoss |-> averageLoss,
       profitFactor |-> ProfitFactor(averageWin, averageLoss),
       netProfitFactor |-> ProfitFactor(netAverageWin, netAverageLoss)]

\* one pass of the drawdown forEach over an amount
DrawdownStep(acc, amount) ==
  LET running == RAdd(acc.running, amount)
      peak == IF RLt(acc.peak, running) THEN running ELSE acc.peak
      drawdown == RSub(peak, running)
  IN  [running |-> running, peak |-> peak,
       maxDrawdown |-> IF RLt(acc.maxDrawdown, drawdown) THEN drawdown
                                                         ELSE acc.maxDrawdown]

RECURSIVE DrawdownScan(_, _, _)
\* the drawdown forEach over the first n amounts, from the initial balance
DrawdownScan(amounts, n, initial) ==
  IF n = 0 THEN [running |-> initial, peak |-> initial, maxDrawdown |-> RInt(0)]
  ELSE CHOOSE next \in
         { DrawdownStep(acc, amounts[n]) :
             acc \in {DrawdownScan(amounts, n - 1, initial)} } : TRUE

DrawdownMetrics(trs, cfg) ==
  LET initial == RInt(cfg.initialBalance)
      n == Len(trs)
      maxDrawdown == DrawdownScan([k \in 1..n |-> trs[k].pnl], n, initial).maxDrawdown
      netMaxDrawdown ==
        DrawdownScan([k \in 1..n |-> trs[k].netPnl], n, initial).maxDrawdown
  IN  [maxDrawdown |-> maxDrawdown,
       maxDrawdownPercentage |-> RMul(RDiv(maxDrawdown, initial), RInt(100)),
       netMaxDrawdown |-> netMaxDrawdown,
       netMaxDrawdownPercentage |-> RMul(RDiv(netMaxDrawdown, initial), RInt(100))]

\* the significand of a Number, in bits (53 in IEEE 754 double precision)
Precision == 4

RECURSIVE Pow2(_)
Pow2(k) == IF k = 0 THEN 1 ELSE 2 * Pow2(k - 1)

RECURSIVE Exponent(_, _)
\* the e with 2^(Precision-1) <= (n / d) / 2^e < 2^Precision, for n, d > 0
Exponent(n, d) ==
  IF n >= Pow2(Precision) * d THEN Exponent(n, 2 * d) + 1
  ELSE IF n < Pow2(Precision - 1) * d THEN Exponent(2 * n, d) - 1
  ELSE 0

\* the integer nearest to n / d, ties to even
NearestEven(n, d) ==
  LET floor == n \div d
      twice == 2 * (n % d)
  IN  IF twice > d \/ (twice = d /\ floor % 2 = 1) THEN floor + 1 ELSE floor

\* the Number nearest to q: round to nearest, ties to even
Round(q) ==
  IF q[2] = 0 \/ q[1] = 0 THEN q
  ELSE LET n == Abs(q[1])
           e == CHOOSE x \in {Exponent(n, q[2])} : TRUE
           m == IF e >= 0 THEN NearestEven(n, q[2] * Pow2(e))
                          ELSE NearestEven(n * Pow2(-e), q[2])
           magnitude == IF e >= 0 THEN Rat(m * Pow2(e), 1) ELSE Rat(m, Pow2(-e))
       IN  IF q[1] > 0 THEN magnitude ELSE RNeg(magnitude)

\* the result of an arithmetic operation whose exact value is q: the
\* "exact" arithmetic keeps it, the "Number" arithmetic rounds it
Num(arithmetic, q) == IF arithmetic = "Number" THEN Round(q) ELSE q

RECURSIVE ReduceSum(_, _, _)
\* xs.reduce((sum, x) => sum + x, 0) over the first n elements
ReduceSum(xs, n, arithmetic) ==
  IF n = 0 THEN RInt(0)
  ELSE Num(arithmetic, RAdd(ReduceSum(xs, n - 1, arithmetic), xs[n]))

\* returns.reduce((sum, ret) => sum + ret, 0) / returns.length
Mean(xs, arithmetic) ==
  Num(arithmetic, RDiv(ReduceSum(xs, Len(xs), arithmetic), RInt(Len(xs))))

\* the mean of Math.pow(ret - centre, 2) over the returns
MeanSquare(xs, centre, arithmetic) ==
  LET Deviation(x) == Num(arithmetic, RSub(x, centre))
      squares == [k \in 1..Len(xs) |->
                    Num(arithmetic, RMul(Deviation(xs[k]), Deviation(xs[k])))]
  IN  Mean(squares, arithmetic)

\* variant: the mean is divided by the deviation whatever it is
RatioOverDeviationUnguarded(mean, variance) == JsDivSqrt(mean, variance)

\* variance > 0 ? mean / Math.sqrt(variance) : 0
RatioOverDeviation(mean, variance) ==
  IF RLt(RInt(0), variance) THEN JsDivSqrt(mean, variance) ELSE RInt(0)

\* the Sharpe ratios and the Sortino ratio of the trades' returns
DeviationRatios(trs, arithmetic) ==
  LET n == Len(trs)
      returns == [k \in 1..n |-> Num(arithmetic, trs[k].pnlPercentage)]
      netReturns == [k \in 1..n |-> Num(arithmetic, trs[k].netPnlPercentage)]
      averageReturn == Mean(returns, arithmetic)
      netAverageReturn == Mean(netReturns, arithmetic)
      downsideReturns == SelectSeq(returns, LAMBDA ret : RLt(ret, RInt(0)))
      downsideVariance ==
        IF Len(downsideReturns) > 0
          THEN MeanSquare(downsideReturns, RInt(0), arithmetic) ELSE RInt(0)
  IN  [sharpeRatio |->
         RatioOverDeviation(averageReturn,
                            MeanSquare(returns, averageReturn, arithmetic)),
       netSharpeRatio |->
         RatioOverDeviation(netAverageReturn,
                            MeanSquare(netReturns, netAverageReturn, arithmetic)),
       sortinoRatio |-> RatioOverDeviation(averageReturn, downsideVariance)]

\* the deviation ratios in exact arithmetic
DeviationMetrics(trs) == DeviationRatios(trs, "exact")

\* BacktestService.calculateStabilityScore
calculateStabilityScore(returns, arithmetic) ==
  IF Len(returns) < 2 THEN RInt(0)
  ELSE CHOOSE score \in
         { RatioOverDeviation(moments[1], moments[2]) :
             moments \in { <<mean, MeanSquare(returns, mean, arithmetic)>> :
                             mean \in {Mean(returns, arithmetic)} } } : TRUE

\* the Calmar ratio; the clock of the model counts days
CalmarMetrics(trs, cfg, netTotalReturn, netMaxDrawdown) ==
  LET initial == RInt(cfg.initialBalance)
      totalDays == RInt(trs[Len(trs)].exitTime - trs[1].entryTime)
      annualizedReturn ==
        IF RLt(RInt(0), totalDays)
          THEN RMul(RDiv(netTotalReturn, initial), RDiv(RInt(365), totalDays))
          ELSE RInt(0)
  IN  [calmarRatio |->
         IF RLt(RInt(0), netMaxDrawdown)
           THEN JsDiv(annualizedReturn, RDiv(netMaxDrawdown, initial))
           ELSE RInt(0)]

\* variant: a trade that neither wins nor loses ends the winning streak
StreakStepZeroResets(acc, trade) ==
  IF RLt(RInt(0), trade.netPnl)
    THEN [acc EXCEPT !.currentWins = acc.currentWins + 1,
                     !.currentLosses = 0,
                     !.maxConsecutiveWins =
                        IF acc.currentWins + 1 > acc.maxConsecutiveWins
                          THEN acc.currentWins + 1 ELSE acc.maxConsecutiveWins]
  ELSE IF RLt(trade.netPnl, RInt(0))
    THEN [acc EXCEPT !.consecutiveWins =
                        IF acc.currentWins > 0
                          THEN Append(acc.consecutiveWins, acc.currentWins)
                          ELSE acc.consecutiveWins,
                     !.currentWins = 0,
                     !.currentLosses = acc.currentLosses + 1,
                     !.maxConsecutiveLosses =
                        IF acc.currentLosses + 1 > acc.maxConsecutiveLosses
                          THEN acc.currentLosses + 1 ELSE acc.maxConsecutiveLosses]
  ELSE [acc EXCEPT !.consecutiveWins =
                      IF acc.currentWins > 0
                        THEN Append(acc.consecutiveWins, acc.currentWins)
                        ELSE acc.consecutiveWins,
                   !.currentWins = 0]

\* one pass of the streak forEach over a trade
StreakStep(acc, trade) ==
  IF RLt(RInt(0), trade.netPnl)
    THEN [acc EXCEPT !.currentWins = acc.currentWins + 1,
                     !.currentLosses = 0,
                     !.maxConsecutiveWins =
                        IF acc.currentWins + 1 > acc.maxConsecutiveWins
                          THEN acc.currentWins + 1 ELSE acc.maxConsecutiveWins]
  ELSE IF RLt(trade.netPnl, RInt(0))
    THEN [acc EXCEPT !.consecutiveWins =
                        IF acc.currentWins > 0
                          THEN Append(acc.consecutiveWins, acc.currentWins)
                          ELSE acc.consecutiveWins,
                     !.currentWins = 0,
                     !.currentLosses = acc.currentLosses + 1,
                     !.maxConsecutiveLosses =
                        IF acc.currentLosses + 1 > acc.maxConsecutiveLosses
                          THEN acc.currentLosses + 1 ELSE acc.maxConsecutiveLosses]
  ELSE acc

RECURSIVE StreakScan(_, _)
\* the streak forEach over the first n trades
StreakScan(trs, n) ==
  IF n = 0
    THEN [currentWins |-> 0, currentLosses |-> 0, maxConsecutiveWins |-> 0,
          maxConsecutiveLosses |-> 0, consecutiveWins |-> <<>>,
          consecutiveLosses |-> <<>>]
  ELSE CHOOSE next \in
         { StreakStep(acc, trs[n]) : acc \in {StreakScan(trs, n - 1)} } : TRUE

RECURSIVE SumInts(_, _)
SumInts(xs, n) == IF n = 0 THEN 0 ELSE SumInts(xs, n - 1) + xs[n]

\* the streak fields, after the final streaks are added
StreakMetrics(trs) ==
  LET scan == CHOOSE acc \in {StreakScan(trs, Len(trs))} : TRUE
      consecutiveWins ==
        IF scan.currentWins > 0 THEN Append(scan.consecutiveWins, scan.currentWins)
                                ELSE scan.consecutiveWins
      consecutiveLosses ==
        IF scan.currentLosses > 0
          THEN Append(scan.consecutiveLosses, scan.currentLosses)
          ELSE scan.consecutiveLosses
      Average(xs) == IF Len(xs) > 0 THEN Rat(SumInts(xs, Len(xs)), Len(xs)) ELSE RInt(0)
  IN  [maxConsecutiveWins |-> RInt(scan.maxConsecutiveWins),
       maxConsecutiveLosses |-> RInt(scan.maxConsecutiveLosses),
       averageConsecutiveWins |-> Average(consecutiveWins),
       averageConsecutiveLosses |-> Average(consecutiveLosses)]

calculatePerformanceMetrics(trs, cfg) ==
  IF Len(trs) = 0 THEN getEmptyPerformanceMetrics
  ELSE LET basic == BasicMetrics(trs, cfg)
           drawdown == DrawdownMetrics(trs, cfg)
       IN  basic @@ AverageMetrics(trs) @@ drawdown @@ DeviationMetrics(trs)
             @@ CalmarMetrics(trs, cfg, basic.netTotalReturn, drawdown.netMaxDrawdown)
             @@ StreakMetrics(trs)

(***************************************************************************)
(* runBacktest: the responses it returns.                                  *)
(***************************************************************************)
\* variant: a run without trades is reported as a failure
SuccessOnlyWithTrades(result) ==
  IF Len(result.trades) = 0
    THEN [success |-> FALSE, error |-> "no trades"]
    ELSE [success |-> TRUE, data |-> result]

SuccessResponse(result) == [success |-> TRUE, data |-> result]

FailureResponse(message) == [success |-> FALSE, error |-> message]

\* the StrategyResult executeBacktest returns
StrategyResult(sigs, trs, cfg) ==
  [signals |-> sigs, trades |-> trs,
   performance |-> calculatePerformanceMetrics(trs, cfg)]

\* variant: the exception leaves runBacktest
Rethrow(message) == [rejected |-> message]

\* the catch block of runBacktest
Catch(message) == FailureResponse(message)

\* variant: any candle count is enough
AlwaysEnoughCandles(cs, req) == TRUE

\* the negation of candles.length < requiredCandles
HasEnoughCandles(cs, req) == ~(Len(cs) < req)

\* no metrics are being evaluated
MetricsIdle ==
  /\ sample = <<>>
  /\ sampleConfig = <<>>
  /\ performance = NoResponse
  /\ numberRatios = NoResponse
  /\ windowReturns = <<>>
  /\ stabilityScore = NoResponse
  /\ riskMetrics = NoResponse

\* no grid search is under way
OptimizeIdle ==
  /\ paramNames = <<>>
  /\ paramValues = <<>>
  /\ combinations = <<>>
  /\ cursor = 0
  /\ tested = <<>>
  /\ results = <<>>
  /\ optimization = NoResponse

\* no Monte Carlo simulation is under way
MonteCarloIdle ==
  /\ originalResult = NoResponse
  /\ simulations = 0
  /\ samples = <<>>
  /\ monteCarlo = NoResponse

\* no walk-forward analysis is under way
WalkForwardIdle ==
  /\ history = <<>>
  /\ windowMs = 0
  /\ stepMs = 0
  /\ currentStart = 0
  /\ oddIteration = FALSE
  /\ periodRequests = <<>>
  /\ periods = <<>>
  /\ walkForward = NoResponse

\* no comparison is under way
CompareIdle ==
  /\ strategies = <<>>
  /\ comparisonResults = <<>>
  /\ comparison = NoResponse

NoSocket == 0

\* the service as its field initialisers leave it
SocketIdle ==
  /\ ws = NoSocket
  /\ isConnected = FALSE
  /\ reconnectAttempts = 0
  /\ reconnectTimeout = "null"
  /\ wss = FALSE
  /\ accountUpdateInterval = FALSE
  /\ sockets = <<>>
  /\ disconnected = FALSE
  /\ reconnected = FALSE

\* no analysis beyond the single run is under way
AnalysisIdle ==
  /\ MetricsIdle /\ OptimizeIdle /\ MonteCarloIdle /\ WalkForwardIdle /\ CompareIdle
  /\ SocketIdle

\* no HTTP request is being handled
RouteIdle ==
  /\ endpoint = "none"
  /\ body = <<>>
  /\ rpc = "idle"
  /\ backtestConfig = <<>>
  /\ status = 0
  /\ serviceCalls = 0

\* no second call is in flight
ConcIdle ==
  /\ calls = <<>>
  /\ instances = <<>>
  /\ runs = <<>>

InitWith(configs, fd) ==
  /\ RouteIdle
  /\ ConcIdle
  /\ AnalysisIdle
  /\ strategy \in RequestedStrategies
  /\ config \in configs
  /\ feed = fd
  /\ response = NoResponse
  /\ fetches = 0
  /\ executions = 0
  /\ thrown = "none"
  /\ pc = "lookup"
  /\ requiredCandles = 0
  /\ candles = <<>>
  /\ i = 0
  /\ signals = <<>>
  /\ trades = <<>>
  /\ currentPosition = NoPosition
  /\ balance = RInt(config.initialBalance)
  /\ opens = 0
  /\ openIntoFinal = FALSE

Init == InitWith(Configs, Feed)

\* the runs of the stop-loss scenario
ScenarioInit == InitWith(ScenarioConfigs, ScenarioFeed)

\* the registry has no factory for the name: failure before any fetch
UnknownStrategy ==
  /\ pc = "lookup"
  /\ strategy \notin DOMAIN Registry
  /\ response' = FailureResponse("strategy not found")
  /\ pc' = "failed"
  /\ UNCHANGED <<strategy, fetches, executions, thrown, feed>>
  /\ UNCHANGED <<candles, config, requiredCandles, i, signals, trades,
                 currentPosition, balance, opens, openIntoFinal>>
  /\ UNCHANGED <<routeVars, concVars, analysisVars>>

\* a fresh strategy instance is built and the provider is called
CreateAndFetch ==
  /\ pc = "lookup"
  /\ strategy \in DOMAIN Registry
  /\ requiredCandles' = Registry[strategy]
  /\ fetches' = fetches + 1
  /\ pc' = "fetch"
  /\ UNCHANGED <<strategy, response, executions, thrown, feed>>
  /\ UNCHANGED <<candles, config, i, signals, trades, currentPosition, balance,
                 opens, openIntoFinal>>
  /\ UNCHANGED <<routeVars, concVars, analysisVars>>

\* the await resumes with the provider's candles
FetchReturns ==
  /\ pc = "fetch"
  /\ \E closes \in ShortSeries(feed.prices, requiredCandles)
                     \cup CandleSeries(feed.prices, requiredCandles) :
       candles' = MkCandles(closes)
  /\ pc' = "check"
  /\ UNCHANGED runVars
  /\ UNCHANGED <<config, requiredCandles, i, signals, trades, currentPosition,
                 balance, opens, openIntoFinal>>
  /\ UNCHANGED <<routeVars, concVars, analysisVars>>

\* the provider throws: the catch block answers
FetchThrows ==
  /\ pc = "fetch"
  /\ thrown' = "provider failure"
  /\ response' = Catch("provider failure")
  /\ pc' = "failed"
  /\ UNCHANGED <<strategy, fetches, executions, feed>>
  /\ UNCHANGED <<candles, config, requiredCandles, i, signals, trades,
                 currentPosition, balance, opens, openIntoFinal>>
  /\ UNCHANGED <<routeVars, concVars, analysisVars>>

\* fewer candles than the window: failure before the simulation
InsufficientData ==
  /\ pc = "check"
  /\ ~HasEnoughCandles(candles, requiredCandles)
  /\ response' = FailureResponse("insufficient data")
  /\ pc' = "failed"
  /\ UNCHANGED <<strategy, fetches, executions, thrown, feed>>
  /\ UNCHANGED <<candles, config, requiredCandles, i, signals, trades,
                 currentPosition, balance, opens, openIntoFinal>>
  /\ UNCHANGED <<routeVars, concVars, analysisVars>>

\* executeBacktest is entered: its locals are initialised, the loop starts
Execute ==
  /\ pc = "check"
  /\ HasEnoughCandles(candles, requiredCandles)
  /\ executions' = executions + 1
  /\ signals' = <<>>
  /\ trades' = <<>>
  /\ currentPosition' = NoPosition
  /\ balance' = RInt(config.initialBalance)
  /\ i' = LoopStart(requiredCandles)
  /\ pc' = LoopPc(LoopStart(requiredCandles))
  /\ UNCHANGED <<strategy, response, fetches, thrown, feed>>
  /\ UNCHANGED <<candles, config, requiredCandles, opens, openIntoFinal>>
  /\ UNCHANGED <<routeVars, concVars, analysisVars>>

\* the indicator service or the strategy throws inside the loop
SimulationThrows ==
  /\ pc = "signal"
  /\ thrown' = "simulation failure"
  /\ response' = Catch("simulation failure")
  /\ pc' = "failed"
  /\ UNCHANGED <<strategy, fetches, executions, feed>>
  /\ UNCHANGED <<candles, config, requiredCandles, i, signals, trades,
                 currentPosition, balance, opens, openIntoFinal>>
  /\ UNCHANGED <<routeVars, concVars, analysisVars>>

\* the signal a strategy returns for the window ending at candle k
StrategySignal(action, confidence, candle) ==
  [action |-> action, confidence |-> confidence,
   price |-> candle.close, timestamp |-> candle.openTime]

\* variant: only a signal that qualifies is logged
LogSignalIfQualifying(signal) ==
  /\ signals' = IF Qualifies(signal) THEN Append(signals, signal) ELSE signals
  /\ openIntoFinal' = IF i = LastIndex THEN currentPosition # NoPosition
                                        ELSE openIntoFinal
  /\ pc' = "stops"
  /\ UNCHANGED <<candles, config, requiredCandles, i>>
  /\ UNCHANGED <<runVars, routeVars, concVars, analysisVars>>

\* common part of the signal step: the signal is logged, whatever it is
LogSignal(signal) ==
  /\ signals' = Append(signals, signal)
  /\ openIntoFinal' = IF i = LastIndex THEN currentPosition # NoPosition
                                        ELSE openIntoFinal
  /\ pc' = "stops"
  /\ UNCHANGED <<candles, config, requiredCandles, i>>
  /\ UNCHANGED <<runVars, routeVars, concVars, analysisVars>>

\* a qualifying BUY while flat opens a long
OpenLong ==
  /\ pc = "signal"
  /\ \E sc \in feed.signals :
       LET signal == StrategySignal(sc[1], sc[2], CandleAt(i)) IN
         /\ Qualifies(signal)
         /\ CanOpen(currentPosition, signal)
         /\ LogSignal(signal)
         /\ currentPosition' = OpenPosition(CandleAt(i), balance, config)
         /\ opens' = opens + 1
         /\ UNCHANGED <<trades, balance>>

\* a qualifying SELL while in position closes it
CloseBySignal ==
  /\ pc = "signal"
  /\ \E sc \in feed.signals :
       LET signal == StrategySignal(sc[1], sc[2], CandleAt(i)) IN
         /\ Qualifies(signal)
         /\ ~CanOpen(currentPosition, signal)
         /\ CanClose(currentPosition, signal)
         /\ LogSignal(signal)
         /\ LET trade == SignalTrade(currentPosition, CandleAt(i), config) IN
              /\ trades' = Append(trades, trade)
              /\ balance' = RAdd(balance, trade.netPnl)
         /\ currentPosition' = AfterSignalClose(currentPosition)
         /\ UNCHANGED opens

\* any other signal changes nothing but the log
NoTrade ==
  /\ pc = "signal"
  /\ \E sc \in feed.signals :
       LET signal == StrategySignal(sc[1], sc[2], CandleAt(i)) IN
         /\ \/ ~Qualifies(signal)
            \/ /\ ~CanOpen(currentPosition, signal)
               /\ ~CanClose(currentPosition, signal)
         /\ LogSignal(signal)
         /\ UNCHANGED <<trades, balance, currentPosition, opens>>

\* end of the loop body: i++ and the loop test
NextCandle ==
  /\ i' = i + 1
  /\ pc' = LoopPc(i + 1)
  /\ UNCHANGED <<candles, config, requiredCandles, signals, opens, openIntoFinal>>
  /\ UNCHANGED <<runVars, routeVars, concVars, analysisVars>>

StopLoss ==
  /\ pc = "stops"
  /\ ChecksStops(currentPosition)
  /\ HitStopLoss(PriceChange(currentPosition, CandleAt(i)), config)
  /\ LET trade == StopLossTrade(currentPosition, CandleAt(i), config) IN
       /\ trades' = Append(trades, trade)
       /\ balance' = RAdd(balance, trade.netPnl)
  /\ currentPosition' = NoPosition
  /\ NextCandle

TakeProfit ==
  /\ pc = "stops"
  /\ ChecksStops(currentPosition)
  /\ ~HitStopLoss(PriceChange(currentPosition, CandleAt(i)), config)
  /\ HitTakeProfit(PriceChange(currentPosition, CandleAt(i)), config)
  /\ LET trade == TakeProfitTrade(currentPosition, CandleAt(i), config) IN
       /\ trades' = Append(trades, trade)
       /\ balance' = RAdd(balance, trade.netPnl)
  /\ currentPosition' = NoPosition
  /\ NextCandle

NoStop ==
  /\ pc = "stops"
  /\ \/ ~ChecksStops(currentPosition)
     \/ /\ ChecksStops(currentPosition)
        /\ ~HitStopLoss(PriceChange(currentPosition, CandleAt(i)), config)
        /\ ~HitTakeProfit(PriceChange(currentPosition, CandleAt(i)), config)
  /\ NextCandle
  /\ UNCHANGED <<trades, balance, currentPosition>>

\* close any remaining position at the end, then return
CloseRemaining ==
  /\ pc = "end"
  /\ HasRemaining(currentPosition)
  /\ LET trade == EndOfDataTrade(currentPosition, CandleAt(LastIndex), config) IN
       /\ trades' = Append(trades, trade)
       /\ balance' = RAdd(balance, trade.netPnl)
  /\ response' = SuccessResponse(StrategyResult(signals, trades', config))
  /\ pc' = "done"
  /\ UNCHANGED <<candles, config, requiredCandles, i, signals, currentPosition,
                 opens, openIntoFinal>>
  /\ UNCHANGED <<strategy, fetches, executions, thrown, feed>>
  /\ UNCHANGED <<routeVars, concVars, analysisVars>>

ReturnFlat ==
  /\ pc = "end"
  /\ ~HasRemaining(currentPosition)
  /\ response' = SuccessResponse(StrategyResult(signals, trades, config))
  /\ pc' = "done"
  /\ UNCHANGED <<candles, config, requiredCandles, i, signals, trades,
                 currentPosition, balance, opens, openIntoFinal>>
  /\ UNCHANGED <<strategy, fetches, executions, thrown, feed>>
  /\ UNCHANGED <<routeVars, concVars, analysisVars>>

Next ==
  \/ UnknownStrategy
  \/ CreateAndFetch
  \/ FetchReturns
  \/ FetchThrows
  \/ InsufficientData
  \/ Execute
  \/ SimulationThrows
  \/ OpenLong
  \/ CloseBySignal
  \/ NoTrade
  \/ StopLoss
  \/ TakeProfit
  \/ NoStop
  \/ CloseRemaining
  \/ ReturnFlat

Spec == Init /\ [][Next]_vars

ScenarioSpec == ScenarioInit /\ [][Next]_vars

(***************************************************************************)
(* The backtest router: one request from its arrival to the response.      *)
(*   rpc = "received" : the body has been destructured                     *)
(*   rpc = "built"    : backtestConfig has been built                      *)
(*   rpc = "service"  : awaiting the backtest service                      *)
(*   rpc = "responded": a response has been sent                           *)
(***************************************************************************)
Endpoints ==
  {"run", "optimize", "monte-carlo", "walk-forward", "risk-metrics", "compare"}

\* the combinations a grid search may be asked to try
MaxCombinations == 2

\* the windows a walk-forward analysis may step through
MaxWindows == 1

\* config values a client may send; 0 also stands for a field left out
RawConfigs ==
  [initialBalance : {-1, 0, 10000}, positionSize : {0, 10, 150},
   stopLoss : {-1, 0, 2}, takeProfit : {0, 3}]

\* req.body: complete is FALSE when a required field is missing
Bodies ==
  [complete : BOOLEAN, strategy : {"RSI_EMA50", UnknownStrategyName},
   config : RawConfigs]

\* value || fallback
OrDefault(value, fallback) == IF value = 0 THEN fallback ELSE value

\* the BacktestConfig every handler builds from config
BuildBacktestConfig(cfg) ==
  [initialBalance |-> OrDefault(cfg.initialBalance, 10000),
   positionSize |-> OrDefault(cfg.positionSize, 10),
   stopLoss |-> OrDefault(cfg.stopLoss, 2),
   takeProfit |-> OrDefault(cfg.takeProfit, 3)]

\* the three value tests of the /run handler
ConfigRejected(bc) ==
  \/ bc.initialBalance <= 0
  \/ bc.positionSize <= 0 \/ bc.positionSize > 100
  \/ bc.stopLoss <= 0 \/ bc.takeProfit <= 0

\* the handlers that test the values of backtestConfig
ValidatesConfigValues(ep) == ep = "run"

\* what runBacktest may answer for a strategy name, reduced to success and
\* the number of trades
BacktestOutcomes(name) ==
  IF name \notin DOMAIN Registry
    THEN { [success |-> FALSE, trades |-> 0] }
    ELSE { [success |-> FALSE, trades |-> 0],
           [success |-> TRUE, trades |-> 0],
           [success |-> TRUE, trades |-> 1] }

\* optimizeParameters over the answers of its runBacktest calls: reduce
\* without an initial value throws when no combination succeeded
optimizeParameters(answers) ==
  IF \E k \in 1..Len(answers) : answers[k].success THEN "ok" ELSE "throws"

\* runMonteCarloSimulation over the answer of its runBacktest call
runMonteCarloSimulation(answer) ==
  IF ~answer.success \/ answer.trades = 0 THEN "throws" ELSE "ok"

\* runWalkForwardAnalysis over the provider's data and, per window, the
\* outcome of the in-sample optimisation
runWalkForwardAnalysis(data, optimizations) ==
  IF data # "some" THEN "throws"
  ELSE IF \E w \in 1..Len(optimizations) : optimizations[w] = "throws"
    THEN "throws"
    ELSE "ok"

\* sequences over a set, up to a length
SeqUpTo(S, n) == UNION { [1..m -> S] : m \in 0..n }

\* no run or simulation state is used at the router level
ServiceIdle ==
  /\ strategy = "none"
  /\ config = <<>>
  /\ feed = <<>>
  /\ response = NoResponse
  /\ fetches = 0
  /\ executions = 0
  /\ thrown = "none"
  /\ pc = "idle"
  /\ requiredCandles = 0
  /\ candles = <<>>
  /\ i = 0
  /\ signals = <<>>
  /\ trades = <<>>
  /\ currentPosition = NoPosition
  /\ balance = RInt(0)
  /\ opens = 0
  /\ openIntoFinal = FALSE

RouteInit ==
  /\ ServiceIdle
  /\ AnalysisIdle
  /\ ConcIdle
  /\ endpoint \in Endpoints
  /\ body \in Bodies
  /\ rpc = "received"
  /\ backtestConfig = <<>>
  /\ status = 0
  /\ serviceCalls = 0

\* the handler sends a status and ends
Respond(code) ==
  /\ status' = code
  /\ rpc' = "responded"
  /\ UNCHANGED <<endpoint, body, backtestConfig, serviceCalls>>
  /\ UNCHANGED <<runVars, simVars, concVars, analysisVars>>

\* a required field is missing
MissingFields ==
  /\ rpc = "received"
  /\ ~body.complete
  /\ Respond(400)

BuildConfig ==
  /\ rpc = "received"
  /\ body.complete
  /\ backtestConfig' = BuildBacktestConfig(body.config)
  /\ rpc' = "built"
  /\ UNCHANGED <<endpoint, body, status, serviceCalls>>
  /\ UNCHANGED <<runVars, simVars, concVars, analysisVars>>

\* a value test of the handler fails
RejectConfig ==
  /\ rpc = "built"
  /\ ValidatesConfigValues(endpoint)
  /\ ConfigRejected(backtestConfig)
  /\ Respond(400)

\* the handler calls the backtest service and awaits it
InvokeService ==
  /\ rpc = "built"
  /\ ~(ValidatesConfigValues(endpoint) /\ ConfigRejected(backtestConfig))
  /\ serviceCalls' = serviceCalls + 1
  /\ rpc' = "service"
  /\ UNCHANGED <<endpoint, body, backtestConfig, status>>
  /\ UNCHANGED <<runVars, simVars, concVars, analysisVars>>

\* /run and /risk-metrics: runBacktest's answer decides between 200 and 400
RespondRun ==
  /\ rpc = "service"
  /\ endpoint \in {"run", "risk-metrics"}
  /\ \E answer \in BacktestOutcomes(body.strategy) :
       Respond(IF answer.success THEN 200 ELSE 400)

\* /optimize: a throw of optimizeParameters lands in the catch block
RespondOptimize ==
  /\ rpc = "service"
  /\ endpoint = "optimize"
  /\ \E answers \in SeqUpTo(BacktestOutcomes(body.strategy), MaxCombinations) :
       Respond(IF optimizeParameters(answers) = "ok" THEN 200 ELSE 500)

RespondMonteCarlo ==
  /\ rpc = "service"
  /\ endpoint = "monte-carlo"
  /\ \E answer \in BacktestOutcomes(body.strategy) :
       Respond(IF runMonteCarloSimulation(answer) = "ok" THEN 200 ELSE 500)

RespondWalkForward ==
  /\ rpc = "service"
  /\ endpoint = "walk-forward"
  /\ \E data \in {"throws", "empty", "some"} :
       \E grids \in SeqUpTo(SeqUpTo(BacktestOutcomes(body.strategy),
                                     MaxCombinations), MaxWindows) :
         LET optimizations == [w \in 1..Len(grids) |-> optimizeParameters(grids[w])]
         IN  Respond(IF runWalkForwardAnalysis(data, optimizations) = "ok"
                       THEN 200 ELSE 500)

\* /compare: each strategy's failure is recorded, the response is a success
RespondCompare ==
  /\ rpc = "service"
  /\ endpoint = "compare"
  /\ \E answer \in BacktestOutcomes(body.strategy) : Respond(200)

RouteNext ==
  \/ MissingFields
  \/ BuildConfig
  \/ RejectConfig
  \/ InvokeService
  \/ RespondRun
  \/ RespondOptimize
  \/ RespondMonteCarlo
  \/ RespondWalkForward
  \/ RespondCompare

RouteSpec == RouteInit /\ [][RouteNext]_vars

(***************************************************************************)
(* executeBacktest as a function: it runs without an await, so a call in   *)
(* flight beside another one sees it as one step.  st holds the locals     *)
(* signals, trades, currentPosition, balance.                              *)
(***************************************************************************)
\* the signal handling of one loop iteration
SignalHandling(st, candle, sc, cfg) ==
  LET signal == StrategySignal(sc[1], sc[2], candle)
      logged == [st EXCEPT !.signals = Append(st.signals, signal)]
  IN  IF Qualifies(signal) /\ CanOpen(st.currentPosition, signal)
        THEN [logged EXCEPT !.currentPosition = OpenPosition(candle, st.balance, cfg)]
      ELSE IF Qualifies(signal) /\ CanClose(st.currentPosition, signal)
        THEN LET trade == SignalTrade(st.currentPosition, candle, cfg)
             IN  [logged EXCEPT !.trades = Append(st.trades, trade),
                                !.balance = RAdd(st.balance, trade.netPnl),
                                !.currentPosition = AfterSignalClose(st.currentPosition)]
      ELSE logged

\* the stop-loss / take-profit check of one loop iteration
StopHandling(st, candle, cfg) ==
  IF ~ChecksStops(st.currentPosition) THEN st
  ELSE LET priceChange == PriceChange(st.currentPosition, candle)
           Closed(trade) == [st EXCEPT !.trades = Append(st.trades, trade),
                                       !.balance = RAdd(st.balance, trade.netPnl),
                                       !.currentPosition = NoPosition]
       IN  IF HitStopLoss(priceChange, cfg)
             THEN Closed(StopLossTrade(st.currentPosition, candle, cfg))
           ELSE IF HitTakeProfit(priceChange, cfg)
             THEN Closed(TakeProfitTrade(st.currentPosition, candle, cfg))
           ELSE st

RECURSIVE CandleLoop(_, _, _, _, _)
\* for (let i = k; i < candles.length; i++); plan[n] is what the strategy
\* answers on the n-th processed candle
CandleLoop(st, cs, plan, k, inst) ==
  IF ~(k < Len(cs)) THEN st
  ELSE LET candle == cs[k + 1]
           sc == plan[k - inst.requiredCandles + 1]
       IN  CHOOSE final \in
             { CandleLoop(afterStops, cs, plan, k + 1, inst) :
                 afterStops \in
                   { StopHandling(afterSignal, candle, inst.config) :
                       afterSignal \in
                         { SignalHandling(before, candle, sc, inst.config) :
                             before \in {st} } } } : TRUE

executeBacktest(cs, inst, plan) ==
  LET start == [signals |-> <<>>, trades |-> <<>>, currentPosition |-> NoPosition,
                balance |-> RInt(inst.config.initialBalance)]
      Final(st) ==
        IF HasRemaining(st.currentPosition)
          THEN Append(st.trades,
                      EndOfDataTrade(st.currentPosition, cs[Len(cs)], inst.config))
          ELSE st.trades
  IN  CHOOSE result \in
        { StrategyResult(st.signals, trs, inst.config) :
            <<st, trs>> \in
              { <<end, Final(end)>> :
                  end \in { CandleLoop(first, cs, plan, inst.requiredCandles, inst) :
                              first \in {start} } } } : TRUE

\* the step machine and the function agree on every finished run
StepsAgreeWithFunction ==
  pc = "done" =>
    response.data =
      executeBacktest(candles, [config |-> config, requiredCandles |-> requiredCandles],
                      [k \in 1..Len(signals) |->
                         <<signals[k].action, signals[k].confidence>>])

(***************************************************************************)
(* Two runBacktest calls in flight on the one backtestService.  A call     *)
(* yields at the await on the provider only.                               *)
(*   runs[r].pc = "lookup", "fetch", "done"                                *)
(***************************************************************************)
Callers == {1, 2}

\* what the provider may answer
ConcurrentSeries == { <<2, 2, 8, 4>>, <<2>> }

\* what a strategy instance may answer, candle by candle
ConcurrentPlans ==
  { << <<"BUY", 50>>, <<"SELL", 50>>, <<"BUY", 50>> >>,
    << <<"HOLD", 50>>, <<"BUY", 50>>, <<"HOLD", 50>> >> }

\* a call: the request, and what the provider and the strategy answer to it
Calls ==
  [strategy : RequestedStrategies, config : Configs,
   fails : BOOLEAN, closes : ConcurrentSeries, plan : ConcurrentPlans]

NoInstance == [requiredCandles |-> 0]

\* strategyFactory(config)
NewInstance(name, cfg) == [config |-> cfg, requiredCandles |-> Registry[name]]

\* variant: the instance is kept in a field of the service
SharedInstanceSlot(r) == 1

\* const strategyInstance: a local of the call
InstanceSlot(r) == r

ConcInit ==
  /\ RouteIdle
  /\ ServiceIdle
  /\ AnalysisIdle
  /\ calls \in [Callers -> Calls]
  /\ instances = [r \in Callers |-> NoInstance]
  /\ runs = [r \in Callers |->
               [pc |-> "lookup", startBalance |-> RInt(0), response |-> NoResponse]]

\* a call returns
ConcReturn(r, answer, start) ==
  /\ runs' = [runs EXCEPT ![r] = [pc |-> "done", startBalance |-> start,
                                  response |-> answer]]
  /\ UNCHANGED <<calls, instances>>
  /\ UNCHANGED <<runVars, simVars, routeVars, analysisVars>>

ConcUnknownStrategy ==
  \E r \in Callers :
    /\ runs[r].pc = "lookup"
    /\ calls[r].strategy \notin DOMAIN Registry
    /\ ConcReturn(r, FailureResponse("strategy not found"), RInt(0))

\* the instance is built and the call yields at the await
ConcCreateAndFetch ==
  \E r \in Callers :
    /\ runs[r].pc = "lookup"
    /\ calls[r].strategy \in DOMAIN Registry
    /\ instances' = [instances EXCEPT ![InstanceSlot(r)] =
                       NewInstance(calls[r].strategy, calls[r].config)]
    /\ runs' = [runs EXCEPT ![r].pc = "fetch"]
    /\ UNCHANGED calls
    /\ UNCHANGED <<runVars, simVars, routeVars, analysisVars>>

ConcFetchThrows ==
  \E r \in Callers :
    /\ runs[r].pc = "fetch"
    /\ calls[r].fails
    /\ ConcReturn(r, Catch("provider failure"), RInt(0))

ConcInsufficientData ==
  \E r \in Callers :
    /\ runs[r].pc = "fetch"
    /\ ~calls[r].fails
    /\ ~HasEnoughCandles(MkCandles(calls[r].closes),
                         instances[InstanceSlot(r)].requiredCandles)
    /\ ConcReturn(r, FailureResponse("insufficient data"), RInt(0))

\* the call resumes and runs executeBacktest to its end
ConcExecute ==
  \E r \in Callers :
    LET inst == instances[InstanceSlot(r)]
        cs == MkCandles(calls[r].closes)
    IN  /\ runs[r].pc = "fetch"
        /\ ~calls[r].fails
        /\ HasEnoughCandles(cs, inst.requiredCandles)
        /\ ConcReturn(r, SuccessResponse(executeBacktest(cs, inst, calls[r].plan)),
                      RInt(inst.config.initialBalance))

ConcNext ==
  \/ ConcUnknownStrategy
  \/ ConcCreateAndFetch
  \/ ConcFetchThrows
  \/ ConcInsufficientData
  \/ ConcExecute

ConcurrentSpec == ConcInit /\ [][ConcNext]_vars

(***************************************************************************)
(* Arrays: reads by index and the ascending sort.                          *)
(***************************************************************************)
\* a read of an array at a 0-based index
Undefined == <<>>

At(xs, k) == IF k + 1 \in DOMAIN xs THEN xs[k + 1] ELSE Undefined

RECURSIVE Insert(_, _)
\* x put in its place in an ascending list
Insert(xs, x) ==
  IF Len(xs) = 0 THEN <<x>>
  ELSE IF RLe(x, Head(xs)) THEN <<x>> \o xs
  ELSE <<Head(xs)>> \o Insert(Tail(xs), x)

\* variant: the results are left in the order they were pushed
LeftUnsorted(xs, n) == xs

RECURSIVE SortAscending(_, _)
\* results.sort((a, b) => a - b) over the first n elements
SortAscending(xs, n) ==
  IF n = 0 THEN <<>>
  ELSE CHOOSE sorted \in
         { Insert(before, xs[n]) : before \in {SortAscending(xs, n - 1)} } : TRUE

(***************************************************************************)
(* The risk metrics of a trade list: calculateVaR and                      *)
(* calculateExpectedShortfall.                                             *)
(***************************************************************************)
\* Math.floor of a number that is not negative
Floor(q) == q[1] \div q[2]

\* trades.map(trade => trade.netPnlPercentage), sorted ascending
SortedNetReturns(trs) ==
  CHOOSE sorted \in
    { SortAscending(returns, Len(returns)) :
        returns \in { [k \in 1..Len(trs) |-> trs[k].netPnlPercentage] } } : TRUE

\* Math.floor(returns.length * (1 - confidenceLevel))
CutoffIndex(trs, confidenceLevel) ==
  Floor(RMul(RInt(Len(trs)), RSub(RInt(1), confidenceLevel)))

\* BacktestService.calculateVaR
calculateVaR(trs, confidenceLevel) ==
  IF Len(trs) = 0 THEN RInt(0)
  ELSE RAbs(At(SortedNetReturns(trs), CutoffIndex(trs, confidenceLevel)))

\* BacktestService.calculateExpectedShortfall
calculateExpectedShortfall(trs, confidenceLevel) ==
  IF Len(trs) = 0 THEN RInt(0)
  ELSE LET tailReturns ==
             SubSeq(SortedNetReturns(trs), 1, CutoffIndex(trs, confidenceLevel))
       IN  RAbs(JsDiv(SumSeq(tailReturns, Len(tailReturns)), RInt(Len(tailReturns))))

(***************************************************************************)
(* The performance metrics as functions of a trade list: the inputs are    *)
(* the trade lists the simulator writes when it opens at one close and     *)
(* closes on a SELL signal at another, one trade after the other on the    *)
(* running balance.                                                        *)
(***************************************************************************)
MaxTrades == 3

\* <<close at the entry, close at the exit>> of a trade
ClosePairs == { <<4, 9>>, <<9, 4>>, <<9, 10>>, <<4, 4>>, <<10, 9>> }

MetricsConfigs == { Config(50, 50, 100, 1, 0, 0, 0, FALSE) }

\* the candle of a close at a time
CandleOf(close, time) == [openTime |-> time, close |-> close]

\* the trade number k, opened on a balance
TradeOf(pair, k, bal, cfg) ==
  SignalTrade(OpenPosition(CandleOf(pair[1], 2 * k - 1), bal, cfg),
              CandleOf(pair[2], 2 * k), cfg)

RECURSIVE ClosedTrades(_, _, _)
\* the trades of the first n pairs
ClosedTrades(pairs, n, cfg) ==
  IF n = 0 THEN <<>>
  ELSE CHOOSE next \in
         { Append(before,
                  TradeOf(pairs[n], n,
                          RAdd(RInt(cfg.initialBalance),
                               SumSeq([k \in 1..Len(before) |-> before[k].netPnl],
                                      Len(before))),
                          cfg)) :
             before \in {ClosedTrades(pairs, n - 1, cfg)} } : TRUE

\* the netTotalReturnPercentage of a window whose run closed the one trade
WindowReturn(pair, cfg) ==
  calculatePerformanceMetrics(<<TradeOf(pair, 1, RInt(cfg.initialBalance), cfg)>>,
                              cfg).netTotalReturnPercentage

MetricsInit ==
  /\ ServiceIdle
  /\ RouteIdle
  /\ ConcIdle
  /\ SocketIdle
  /\ OptimizeIdle
  /\ MonteCarloIdle
  /\ WalkForwardIdle
  /\ CompareIdle
  /\ sampleConfig \in MetricsConfigs
  /\ \E pairs \in SeqUpTo(ClosePairs, MaxTrades) :
       /\ sample = ClosedTrades(pairs, Len(pairs), sampleConfig)
       /\ windowReturns = [k \in 1..Len(pairs) |-> WindowReturn(pairs[k], sampleConfig)]
  /\ performance = NoResponse
  /\ numberRatios = NoResponse
  /\ stabilityScore = NoResponse
  /\ riskMetrics = NoResponse

\* calculatePerformanceMetrics(trades)
CalculatePerformance ==
  /\ performance = NoResponse
  /\ performance' = calculatePerformanceMetrics(sample, sampleConfig)
  /\ numberRatios' = IF Len(sample) = 0
                       THEN [sharpeRatio |-> RInt(0), netSharpeRatio |-> RInt(0),
                             sortinoRatio |-> RInt(0)]
                       ELSE DeviationRatios(sample, "Number")
  /\ UNCHANGED <<sample, sampleConfig, windowReturns, stabilityScore, riskMetrics>>
  /\ UNCHANGED <<runVars, simVars, routeVars, concVars, socketVars, optimizeVars,
                 monteCarloVars, walkForwardVars, compareVars>>

\* calculateStabilityScore(returns)
CalculateStability ==
  /\ stabilityScore = NoResponse
  /\ stabilityScore' =
       [exact |-> calculateStabilityScore(windowReturns, "exact"),
        number |-> calculateStabilityScore(
                     [k \in 1..Len(windowReturns) |-> Round(windowReturns[k])],
                     "Number")]
  /\ UNCHANGED <<sample, sampleConfig, performance, numberRatios, windowReturns,
                 riskMetrics>>
  /\ UNCHANGED <<runVars, simVars, routeVars, concVars, socketVars, optimizeVars,
                 monteCarloVars, walkForwardVars, compareVars>>

\* the confidence levels the risk metrics are asked at
ConfidenceLevels == { Rat(1, 4), Rat(1, 2), Rat(95, 100), Rat(99, 100) }

\* calculateVaR(trades, level) and calculateExpectedShortfall(trades, level)
CalculateRisk ==
  /\ riskMetrics = NoResponse
  /\ \E confidenceLevel \in ConfidenceLevels :
       riskMetrics' =
         [confidenceLevel |-> confidenceLevel,
          valueAtRisk |-> calculateVaR(sample, confidenceLevel),
          expectedShortfall |-> calculateExpectedShortfall(sample, confidenceLevel)]
  /\ UNCHANGED <<sample, sampleConfig, performance, numberRatios, windowReturns,
                 stabilityScore>>
  /\ UNCHANGED <<runVars, simVars, routeVars, concVars, socketVars, optimizeVars,
                 monteCarloVars, walkForwardVars, compareVars>>

MetricsNext ==
  \/ CalculatePerformance
  \/ CalculateStability
  \/ CalculateRisk

MetricsSpec == MetricsInit /\ [][MetricsNext]_vars

(***************************************************************************)
(* optimizeParameters: the grid search, one runBacktest call at a time.    *)
(* A call is taken by what it answers: a success with the net Sharpe       *)
(* ratio of its performance, a failure response, or an exception.          *)
(***************************************************************************)
MaxRangeLength == 2

\* the ranges a parameter is searched over
ParamRanges ==
  { [k \in 1..n |-> k] : n \in 0..MaxRangeLength } \cup { <<1, 1>>, <<2, 1>> }

\* the ranges a parameter after the first is searched over
InnerRanges == { <<1>>, <<1, 2>> }

\* the parameters the ranges are named after, in key order
ParamNameLists == { <<>>, <<"stopLoss">>, <<"takeProfit", "stopLoss">> }

\* request.config
RequestConfig == Config(50, 50, 100, 1, 0, 0, 0, FALSE)

\* the netSharpeRatio of the performance of a successful run
SharpeValues == { RInt(0), RInt(1) }

RECURSIVE Flatten(_)
\* Array.prototype.flat of a list of lists
Flatten(lists) ==
  IF Len(lists) = 0 THEN <<>> ELSE Head(lists) \o Flatten(Tail(lists))

\* variant: the ranges are walked in step, as far as the shortest goes
generateCombinationsInStep(arrays) ==
  IF Len(arrays) = 0 THEN << <<>> >>
  ELSE LET shortest == CHOOSE n \in { Len(arrays[p]) : p \in 1..Len(arrays) } :
                         \A p \in 1..Len(arrays) : n <= Len(arrays[p])
       IN  [v \in 1..shortest |-> [p \in 1..Len(arrays) |-> arrays[p][v]]]

RECURSIVE generateCombinations(_)
\* BacktestService.generateCombinations
generateCombinations(arrays) ==
  IF Len(arrays) = 0 THEN << <<>> >>
  ELSE LET first == Head(arrays)
       IN  CHOOSE all \in
             { Flatten([v \in 1..Len(first) |->
                          [c \in 1..Len(restCombinations) |->
                             <<first[v]>> \o restCombinations[c]]]) :
                 restCombinations \in {generateCombinations(Tail(arrays))} } : TRUE

\* paramNames.reduce((obj, name, index) => { obj[name] = combination[index] })
ParamsOf(combination) ==
  [name \in { paramNames[k] : k \in 1..Len(paramNames) } |->
     combination[CHOOSE k \in 1..Len(paramNames) : paramNames[k] = name]]

\* { ...request.config, ...params }
OptimizedConfig(params) == params @@ RequestConfig

(***************************************************************************)
(* A runBacktest call of the grid search: the config is the request        *)
(* config with the stopLoss of a combination merged over it.               *)
(***************************************************************************)
\* the stopLoss values a paramRanges object may list: they are not checked
SearchedStopLosses == { 0, 50 }

\* the configs the grid search hands to runBacktest
SearchedConfigs ==
  { OptimizedConfig([stopLoss |-> value]) : value \in SearchedStopLosses }

GridRunInit == InitWith(SearchedConfigs, Feed)

GridRunSpec == GridRunInit /\ [][Next]_vars

\* variant: the lower net Sharpe ratio is kept
KeepsLower(current, best) ==
  RLt(current.performance.netSharpeRatio, best.performance.netSharpeRatio)

\* current.performance.netSharpeRatio > best.performance.netSharpeRatio
KeepsCurrent(current, best) ==
  RLt(best.performance.netSharpeRatio, current.performance.netSharpeRatio)

RECURSIVE BestResult(_, _)
\* results.reduce((best, current) => ...) over the first n results, n > 0
BestResult(rs, n) ==
  IF n = 1 THEN rs[1]
  ELSE CHOOSE kept \in
         { IF KeepsCurrent(rs[n], best) THEN rs[n] ELSE best :
             best \in {BestResult(rs, n - 1)} } : TRUE

OptimizeInit ==
  /\ ServiceIdle
  /\ RouteIdle
  /\ ConcIdle
  /\ SocketIdle
  /\ MetricsIdle
  /\ MonteCarloIdle
  /\ WalkForwardIdle
  /\ CompareIdle
  /\ paramNames \in ParamNameLists
  /\ paramValues \in { values \in [1..Len(paramNames) -> ParamRanges] :
                        \A p \in 2..Len(values) : values[p] \in InnerRanges }
  /\ combinations = <<>>
  /\ cursor = 0
  /\ tested = <<>>
  /\ results = <<>>
  /\ optimization = NoResponse

\* const combinations = this.generateCombinations(paramValues)
GenerateCombinations ==
  /\ cursor = 0
  /\ optimization = NoResponse
  /\ combinations' = generateCombinations(paramValues)
  /\ cursor' = 1
  /\ UNCHANGED <<paramNames, paramValues, tested, results, optimization>>
  /\ UNCHANGED <<runVars, simVars, routeVars, concVars, socketVars, metricsVars,
                 monteCarloVars, walkForwardVars, compareVars>>

\* the loop is at a combination
AtCombination ==
  /\ optimization = NoResponse
  /\ cursor >= 1
  /\ cursor <= Len(combinations)

\* the run of the combination is called and the loop moves on
TestCombination(answer) ==
  /\ tested' = Append(tested,
                      [config |-> OptimizedConfig(ParamsOf(combinations[cursor])),
                       answer |-> answer])
  /\ cursor' = cursor + 1
  /\ UNCHANGED <<paramNames, paramValues, combinations, optimization>>
  /\ UNCHANGED <<runVars, simVars, routeVars, concVars, socketVars, metricsVars,
                 monteCarloVars, walkForwardVars, compareVars>>

\* variant: the result is pushed in front
PushFront(rs, result) == <<result>> \o rs

\* results.push(result)
Push(rs, result) == Append(rs, result)

\* result.success && result.data: the result is pushed
CombinationSucceeds ==
  /\ AtCombination
  /\ \E sharpe \in SharpeValues :
       results' = Push(results, [params |-> ParamsOf(combinations[cursor]),
                                 performance |-> [netSharpeRatio |-> sharpe]])
  /\ TestCombination("success")

\* the run answers success: false: nothing is pushed
CombinationFails ==
  /\ AtCombination
  /\ results' = results
  /\ TestCombination("failure")

\* the run throws: the catch block logs and the loop goes on
CombinationThrows ==
  /\ AtCombination
  /\ results' = results
  /\ TestCombination("throws")

\* after the loop: results.reduce throws on an empty array, or the best
\* result is returned
SelectBest ==
  /\ optimization = NoResponse
  /\ cursor > Len(combinations)
  /\ optimization' =
       IF Len(results) = 0
         THEN [thrown |-> "Reduce of empty array with no initial value"]
         ELSE LET bestResult == CHOOSE r \in {BestResult(results, Len(results))} : TRUE
              IN  [bestParams |-> bestResult.params,
                   bestPerformance |-> bestResult.performance,
                   allResults |-> results]
  /\ UNCHANGED <<paramNames, paramValues, combinations, cursor, tested, results>>
  /\ UNCHANGED <<runVars, simVars, routeVars, concVars, socketVars, metricsVars,
                 monteCarloVars, walkForwardVars, compareVars>>

OptimizeNext ==
  \/ GenerateCombinations
  \/ CombinationSucceeds
  \/ CombinationFails
  \/ CombinationThrows
  \/ SelectBest

OptimizeSpec == OptimizeInit /\ [][OptimizeNext]_vars

(***************************************************************************)
(* runMonteCarloSimulation: the original run, one loop iteration per       *)
(* simulation, the ladder.  Math.random is a free choice of an index.      *)
(***************************************************************************)
MaxSimulations == 3

\* the trade lists of the original run
OriginalTrades ==
  { ClosedTrades(pairs, Len(pairs), RequestConfig) :
      pairs \in SeqUpTo({ <<4, 9>>, <<9, 4>> }, MaxTrades) }

\* what the original runBacktest call can answer
OriginalResults ==
  { FailureResponse("strategy not found") }
    \cup { [success |-> TRUE, data |-> [trades |-> trs]] : trs \in OriginalTrades }

\* variant: one value fewer is drawn
resampleTradesOneShort(returns, count, indices) ==
  [k \in 1..(count - 1) |-> returns[indices[k]]]

\* BacktestService.resampleTrades, the random indices being given
resampleTrades(returns, count, indices) ==
  [k \in 1..count |-> returns[indices[k]]]

\* results[Math.floor(results.length * percent / 100)]
Percentile(sorted, percent) == At(sorted, (Len(sorted) * percent) \div 100)

\* the MonteCarloResult of the results array
MonteCarloResult(pushed, n) ==
  LET sorted == CHOOSE xs \in {SortAscending(pushed, Len(pushed))} : TRUE
  IN  [simulations |-> n,
       confidenceIntervals |-> [p \in {5, 10, 25, 50, 75, 90, 95} |->
                                  Percentile(sorted, p)],
       worstCase |-> At(sorted, 0),
       bestCase |-> At(sorted, Len(sorted) - 1),
       expectedValue |-> JsDiv(SumSeq(sorted, Len(sorted)), RInt(Len(sorted)))]

MonteCarloInit ==
  /\ ServiceIdle
  /\ RouteIdle
  /\ ConcIdle
  /\ SocketIdle
  /\ MetricsIdle
  /\ OptimizeIdle
  /\ WalkForwardIdle
  /\ CompareIdle
  /\ originalResult \in OriginalResults
  /\ simulations \in 0..MaxSimulations
  /\ samples = <<>>
  /\ monteCarlo = NoResponse

\* !originalResult.success || !originalResult.data
OriginalRunFails ==
  /\ monteCarlo = NoResponse
  /\ ~originalResult.success
  /\ monteCarlo' =
       [thrown |-> "Failed to run original backtest for Monte Carlo simulation"]
  /\ UNCHANGED <<originalResult, simulations, samples>>
  /\ UNCHANGED <<runVars, simVars, routeVars, concVars, socketVars, metricsVars,
                 optimizeVars, walkForwardVars, compareVars>>

\* trades.length === 0
NoTradesFound ==
  /\ monteCarlo = NoResponse
  /\ originalResult.success
  /\ Len(originalResult.data.trades) = 0
  /\ monteCarlo' = [thrown |-> "No trades found for Monte Carlo simulation"]
  /\ UNCHANGED <<originalResult, simulations, samples>>
  /\ UNCHANGED <<runVars, simVars, routeVars, concVars, socketVars, metricsVars,
                 optimizeVars, walkForwardVars, compareVars>>

\* trades.map(trade => trade.netPnlPercentage)
TradeReturns ==
  IF originalResult # NoResponse /\ originalResult.success
    THEN [k \in 1..Len(originalResult.data.trades) |->
            originalResult.data.trades[k].netPnlPercentage]
    ELSE <<>>

\* one iteration of the simulation loop
Simulate ==
  /\ monteCarlo = NoResponse
  /\ originalResult.success
  /\ Len(originalResult.data.trades) > 0
  /\ Len(samples) < simulations
  /\ \E indices \in [1..Len(TradeReturns) -> 1..Len(TradeReturns)] :
       LET simulatedTrades ==
             resampleTrades(TradeReturns, Len(originalResult.data.trades), indices)
       IN  samples' = Append(samples, SumSeq(simulatedTrades, Len(simulatedTrades)))
  /\ UNCHANGED <<originalResult, simulations, monteCarlo>>
  /\ UNCHANGED <<runVars, simVars, routeVars, concVars, socketVars, metricsVars,
                 optimizeVars, walkForwardVars, compareVars>>

\* after the loop: the results are sorted and the ladder is read off
ReportLadder ==
  /\ monteCarlo = NoResponse
  /\ originalResult.success
  /\ Len(originalResult.data.trades) > 0
  /\ ~(Len(samples) < simulations)
  /\ monteCarlo' = MonteCarloResult(samples, simulations)
  /\ UNCHANGED <<originalResult, simulations, samples>>
  /\ UNCHANGED <<runVars, simVars, routeVars, concVars, socketVars, metricsVars,
                 optimizeVars, walkForwardVars, compareVars>>

MonteCarloNext ==
  \/ OriginalRunFails
  \/ NoTradesFound
  \/ Simulate
  \/ ReportLadder

MonteCarloSpec == MonteCarloInit /\ [][MonteCarloNext]_vars

(***************************************************************************)
(* runWalkForwardAnalysis: the fetch of the history, one loop iteration    *)
(* per window, the summary.  The in-sample optimisation and the            *)
(* out-of-sample run are taken by what they answer; of a performance only  *)
(* netTotalReturnPercentage is kept, every field being averaged alike.     *)
(***************************************************************************)
MaxHistory == 6

\* 24 * 60 * 60 * 1000
DayMs == 24 * 60 * 60 * 1000

\* the candle intervals: 12h, 1d
IntervalsMs == { DayMs \div 2, DayMs }

\* windowSize and stepSize, in days
WindowSizes == { 1, 2 }

StepSizes == { 0, 1, 2 }

\* the periods a model run may push: more than the windows of a history
\* when the step is positive
MaxPeriods == 4

\* the openTime of n candles an interval apart, from the first day on
HistoryOf(n, intervalMs) == [k \in 1..n |-> DayMs + (k - 1) * intervalMs]

\* the netTotalReturnPercentage of an out-of-sample run
OutOfSampleReturns == { Rat(-1, 2), RInt(2) }

\* the openTime of the candles of the history that a query for the range
\* is answered with: startTime <= openTime <= endTime
CandlesIn(range) ==
  { history[k] : k \in { j \in 1..Len(history) :
                           range.startTime <= history[j] /\ history[j] <= range.endTime } }

\* Math.min
Min(a, b) == IF a < b THEN a ELSE b

\* the history of the requests: the ranges of an iteration are recorded
\* unless they are those of the iteration before it
Recorded(requests, request) ==
  IF Len(requests) > 0 /\ requests[Len(requests)] = request
    THEN requests ELSE Append(requests, request)

\* startTime: inSampleEnd, endTime: outOfSampleEnd
OutOfSampleRange(inSampleEnd, outOfSampleEnd) ==
  [startTime |-> inSampleEnd, endTime |-> outOfSampleEnd]

\* calculateAveragePerformance over the netTotalReturnPercentage field
calculateAveragePerformance(performances) ==
  IF Len(performances) = 0 THEN [netTotalReturnPercentage |-> RInt(0)]
  ELSE [netTotalReturnPercentage |->
          RDiv(SumSeq([k \in 1..Len(performances) |->
                         performances[k].netTotalReturnPercentage],
                      Len(performances)),
               RInt(Len(performances)))]

WalkForwardInit ==
  /\ ServiceIdle
  /\ RouteIdle
  /\ ConcIdle
  /\ SocketIdle
  /\ MetricsIdle
  /\ OptimizeIdle
  /\ MonteCarloIdle
  /\ CompareIdle
  /\ \E n \in 0..MaxHistory, intervalMs \in IntervalsMs : history = HistoryOf(n, intervalMs)
  /\ \E windowSize \in WindowSizes : windowMs = windowSize * DayMs
  /\ \E stepSize \in StepSizes : stepMs = stepSize * DayMs
  /\ currentStart = 0
  /\ oddIteration = FALSE
  /\ periodRequests = <<>>
  /\ periods = <<>>
  /\ walkForward = NoResponse

\* candles.length === 0
NoHistory ==
  /\ walkForward = NoResponse
  /\ Len(history) = 0
  /\ walkForward' =
       [thrown |-> "No historical data available for walk-forward analysis"]
  /\ UNCHANGED <<history, windowMs, stepMs, currentStart, oddIteration,
                 periodRequests, periods>>
  /\ UNCHANGED <<runVars, simVars, routeVars, concVars, socketVars, metricsVars,
                 optimizeVars, monteCarloVars, compareVars>>

\* let currentStart = startTime
StartWindows ==
  /\ walkForward = NoResponse
  /\ Len(history) > 0
  /\ currentStart = 0
  /\ currentStart' = history[1]
  /\ UNCHANGED <<history, windowMs, stepMs, oddIteration, periodRequests, periods,
                 walkForward>>
  /\ UNCHANGED <<runVars, simVars, routeVars, concVars, socketVars, metricsVars,
                 optimizeVars, monteCarloVars, compareVars>>

\* while (currentStart + windowMs < endTime)
InWindow ==
  /\ walkForward = NoResponse
  /\ currentStart # 0
  /\ currentStart + windowMs < history[Len(history)]

\* the in-sample range of the window
InSampleRange == [startTime |-> currentStart, endTime |-> currentStart + windowMs]

\* the ranges of the window, as they are asked for
WindowRequests ==
  LET inSampleEnd == currentStart + windowMs
      outOfSampleEnd == Min(inSampleEnd + stepMs, history[Len(history)])
  IN  [inSample |-> InSampleRange,
       outOfSample |-> OutOfSampleRange(inSampleEnd, outOfSampleEnd)]

\* the optimisation of the window throws, and so does the analysis
OptimizationThrows ==
  /\ InWindow
  /\ periodRequests' = Recorded(periodRequests, [inSample |-> InSampleRange])
  /\ oddIteration' = ~oddIteration
  /\ walkForward' = [thrown |-> "Reduce of empty array with no initial value"]
  /\ UNCHANGED <<history, windowMs, stepMs, currentStart, periods>>
  /\ UNCHANGED <<runVars, simVars, routeVars, concVars, socketVars, metricsVars,
                 optimizeVars, monteCarloVars, compareVars>>

\* the out-of-sample run succeeds: the period is pushed
PeriodSucceeds ==
  /\ InWindow
  /\ Len(periods) < MaxPeriods
  /\ periodRequests' = Recorded(periodRequests, WindowRequests)
  /\ oddIteration' = ~oddIteration
  /\ \E return \in OutOfSampleReturns :
       periods' = Append(periods,
                         [startDate |-> currentStart,
                          endDate |-> WindowRequests.outOfSample.endTime,
                          outOfSample |-> [netTotalReturnPercentage |-> return]])
  /\ currentStart' = currentStart + stepMs
  /\ UNCHANGED <<history, windowMs, stepMs, walkForward>>
  /\ UNCHANGED <<runVars, simVars, routeVars, concVars, socketVars, metricsVars,
                 optimizeVars, monteCarloVars, compareVars>>

\* the out-of-sample run fails: no period is pushed
PeriodFails ==
  /\ InWindow
  /\ periodRequests' = Recorded(periodRequests, WindowRequests)
  /\ oddIteration' = ~oddIteration
  /\ currentStart' = currentStart + stepMs
  /\ UNCHANGED <<history, windowMs, stepMs, periods, walkForward>>
  /\ UNCHANGED <<runVars, simVars, routeVars, concVars, socketVars, metricsVars,
                 optimizeVars, monteCarloVars, compareVars>>

\* the loop has been left and the call has not returned yet
AfterWindows ==
  /\ walkForward = NoResponse
  /\ currentStart # 0
  /\ ~(currentStart + windowMs < history[Len(history)])

\* after the loop: the average and the stability score
Summarize ==
  /\ AfterWindows
  /\ walkForward' =
       [periods |-> periods,
        averageOutOfSample |->
          calculateAveragePerformance([k \in 1..Len(periods) |-> periods[k].outOfSample]),
        stabilityScore |->
          calculateStabilityScore(
            [k \in 1..Len(periods) |-> periods[k].outOfSample.netTotalReturnPercentage],
            "exact")]
  /\ UNCHANGED <<history, windowMs, stepMs, currentStart, oddIteration,
                 periodRequests, periods>>
  /\ UNCHANGED <<runVars, simVars, routeVars, concVars, socketVars, metricsVars,
                 optimizeVars, monteCarloVars, compareVars>>

WalkForwardNext ==
  \/ NoHistory
  \/ StartWindows
  \/ OptimizationThrows
  \/ PeriodSucceeds
  \/ PeriodFails
  \/ Summarize

WalkForwardSpec == WalkForwardInit /\ [][WalkForwardNext]_vars

\* one iteration of the loop, whatever the optimisation and the run answer
Iterate == OptimizationThrows \/ PeriodSucceeds \/ PeriodFails

\* the call keeps running: the code before the loop, an iteration of the
\* loop and the code after it are each executed once control is there (the
\* code after the loop returns at once, so its weak fairness is that the
\* call is not after the loop for ever)
WalkForwardFairSpec ==
  /\ WalkForwardSpec
  /\ WF_vars(NoHistory)
  /\ WF_vars(StartWindows)
  /\ WF_vars(Iterate)
  /\ []<>~AfterWindows

(***************************************************************************)
(* The /compare handler past its validation: one runBacktest call per      *)
(* listed strategy, then the ranking.  A run is taken by what it answers.  *)
(***************************************************************************)
MaxStrategies == 3

\* the names a request can list
ListedStrategies == DOMAIN Registry \cup {UnknownStrategyName}

\* the netSharpeRatio of the performance of a compared run
ComparedSharpes == { RInt(-1), RInt(0), RInt(1) }

\* null
Null == "null"

\* variant: the lower net Sharpe ratio comes first
RanksBeforeAscending(a, b) ==
  RLe(a.performance.netSharpeRatio, b.performance.netSharpeRatio)

\* the comparator b.performance.netSharpeRatio - a.performance.netSharpeRatio
\* leaves a before b: it is not positive
RanksBefore(a, b) ==
  RLe(b.performance.netSharpeRatio, a.performance.netSharpeRatio)

RECURSIVE InsertRanked(_, _)
\* x put behind the entries that the comparator leaves before it
InsertRanked(xs, x) ==
  IF Len(xs) = 0 THEN <<x>>
  ELSE IF RanksBefore(Head(xs), x) THEN <<Head(xs)>> \o InsertRanked(Tail(xs), x)
  ELSE <<x>> \o xs

RECURSIVE SortRanked(_, _)
\* successfulResults.sort(...) over the first n entries (the sort is stable)
SortRanked(xs, n) ==
  IF n = 0 THEN <<>>
  ELSE CHOOSE sorted \in
         { InsertRanked(before, xs[n]) : before \in {SortRanked(xs, n - 1)} } : TRUE

CompareInit ==
  /\ ServiceIdle
  /\ RouteIdle
  /\ ConcIdle
  /\ SocketIdle
  /\ MetricsIdle
  /\ OptimizeIdle
  /\ MonteCarloIdle
  /\ WalkForwardIdle
  /\ strategies \in SeqUpTo(ListedStrategies, MaxStrategies)
  /\ comparisonResults = <<>>
  /\ comparison = NoResponse

\* the loop is at a strategy
AtStrategy ==
  /\ comparison = NoResponse
  /\ Len(comparisonResults) < Len(strategies)

\* for (const strategy of strategies): the strategy the loop is at
CurrentStrategy == strategies[Len(comparisonResults) + 1]

\* an entry is pushed and the loop moves on
PushComparison(entry) ==
  /\ comparisonResults' = Append(comparisonResults, entry)
  /\ UNCHANGED <<strategies, comparison>>
  /\ UNCHANGED <<runVars, simVars, routeVars, concVars, socketVars, metricsVars,
                 optimizeVars, monteCarloVars, walkForwardVars>>

\* result.success && result.data
StrategySucceeds ==
  /\ AtStrategy
  /\ CurrentStrategy \in DOMAIN Registry
  /\ \E sharpe \in ComparedSharpes, count \in {0, 1} :
       PushComparison([strategy |-> CurrentStrategy,
                       performance |-> [netSharpeRatio |-> sharpe],
                       totalTrades |-> count,
                       success |-> TRUE])

\* the run answers success: false
StrategyFails ==
  /\ AtStrategy
  /\ \E error \in IF CurrentStrategy \in DOMAIN Registry
                     THEN {"Insufficient data"} ELSE {"strategy not found"} :
       PushComparison([strategy |-> CurrentStrategy, error |-> error,
                       success |-> FALSE])

\* the run throws: the catch block records the message
StrategyThrows ==
  /\ AtStrategy
  /\ PushComparison([strategy |-> CurrentStrategy, error |-> "Unknown error",
                     success |-> FALSE])

\* after the loop: the successful results are sorted and the response sent
RespondComparison ==
  /\ comparison = NoResponse
  /\ ~(Len(comparisonResults) < Len(strategies))
  /\ LET filtered == SelectSeq(comparisonResults, LAMBDA r : r.success)
         successfulResults == CHOOSE xs \in {SortRanked(filtered, Len(filtered))} : TRUE
     IN  comparison' =
           [results |-> comparisonResults,
            ranking |-> [k \in 1..Len(successfulResults) |->
                           successfulResults[k].strategy],
            bestStrategy |-> IF Len(successfulResults) > 0
                               THEN successfulResults[1].strategy ELSE Null]
  /\ UNCHANGED <<strategies, comparisonResults>>
  /\ UNCHANGED <<runVars, simVars, routeVars, concVars, socketVars, metricsVars,
                 optimizeVars, monteCarloVars, walkForwardVars>>

CompareNext ==
  \/ StrategySucceeds
  \/ StrategyFails
  \/ StrategyThrows
  \/ RespondComparison

CompareSpec == CompareInit /\ [][CompareNext]_vars

(***************************************************************************)
(* The upstream connection of WebSocketService: connect, the callbacks of  *)
(* the sockets it created, the reconnect timer and disconnect.  Timer      *)
(* delays are left out: a pending timer fires at any later moment.         *)
(***************************************************************************)
maxReconnectAttempts == 5

MaxSockets == 3

\* new WebSocket(this.baseUrl)
NewSocket == [readyState |-> "CONNECTING", errored |-> FALSE]

\* the frame of the socket actions
backtestVars == <<runVars, simVars, routeVars, concVars, metricsVars, optimizeVars,
                  monteCarloVars, walkForwardVars, compareVars>>

\* a socket of the ws library that close() was called on, or that failed
Closing(socket) ==
  [socket EXCEPT !.readyState = IF @ = "CLOSED" THEN @ ELSE "CLOSING"]

\* handleDisconnect, entered with this many attempts counted
handleDisconnect(attempts) ==
  /\ isConnected' = FALSE
  /\ IF attempts < maxReconnectAttempts
       THEN /\ reconnectAttempts' = attempts + 1
            /\ reconnectTimeout' = "pending"
       ELSE /\ reconnectAttempts' = attempts
            /\ UNCHANGED reconnectTimeout

\* connect, past the fetches of the initial prices
connect ==
  IF isConnected
    THEN UNCHANGED <<ws, sockets>>
    ELSE /\ sockets' = Append(sockets, NewSocket)
         /\ ws' = Len(sockets) + 1

\* initialize(server): the client-facing server and the account updates start
Initialize ==
  /\ ~wss
  /\ wss' = TRUE
  /\ accountUpdateInterval' = TRUE
  /\ UNCHANGED <<ws, isConnected, reconnectAttempts, reconnectTimeout, sockets,
                 disconnected, reconnected>>
  /\ UNCHANGED backtestVars

\* a caller outside the service calls connect(symbols); the caller of
\* disconnect() calls it no more
Connect ==
  /\ ~disconnected
  /\ Len(sockets) < MaxSockets
  /\ connect
  /\ UNCHANGED <<isConnected, reconnectAttempts, reconnectTimeout, wss,
                 accountUpdateInterval, disconnected, reconnected>>
  /\ UNCHANGED backtestVars

\* the 'open' callback of a socket
OnOpen(s) ==
  /\ sockets[s].readyState = "CONNECTING"
  /\ sockets' = [sockets EXCEPT ![s].readyState = "OPEN"]
  /\ IF ws # NoSocket /\ sockets'[ws].readyState = "OPEN"
       THEN /\ isConnected' = TRUE
            /\ reconnectAttempts' = 0
            /\ UNCHANGED reconnectTimeout
       ELSE handleDisconnect(0)
  /\ UNCHANGED <<ws, wss, accountUpdateInterval, disconnected, reconnected>>
  /\ UNCHANGED backtestVars

\* the 'error' callback of a socket; the library emits it once, before 'close'
OnError(s) ==
  /\ sockets[s].readyState # "CLOSED"
  /\ ~sockets[s].errored
  /\ sockets' = [sockets EXCEPT ![s] = [Closing(@) EXCEPT !.errored = TRUE]]
  /\ handleDisconnect(reconnectAttempts)
  /\ UNCHANGED <<ws, wss, accountUpdateInterval, disconnected, reconnected>>
  /\ UNCHANGED backtestVars

\* the 'close' callback of a socket: the peer closed it, or it failed, or
\* close() was called on it
OnClose(s) ==
  /\ sockets[s].readyState \in {"OPEN", "CLOSING"}
  /\ sockets' = [sockets EXCEPT ![s].readyState = "CLOSED"]
  /\ handleDisconnect(reconnectAttempts)
  /\ UNCHANGED <<ws, wss, accountUpdateInterval, disconnected, reconnected>>
  /\ UNCHANGED backtestVars

\* the callback of the reconnect timer
TimerFires ==
  /\ reconnectTimeout = "pending"
  /\ Len(sockets) < MaxSockets
  /\ reconnectTimeout' = "fired"
  /\ connect
  /\ reconnected' = (reconnected \/ disconnected)
  /\ UNCHANGED <<isConnected, reconnectAttempts, wss, accountUpdateInterval,
                 disconnected>>
  /\ UNCHANGED backtestVars

\* disconnect(), which does nothing without a socket
Disconnect ==
  /\ ws # NoSocket
  /\ sockets' = [sockets EXCEPT ![ws] = Closing(@)]
  /\ ws' = NoSocket
  /\ isConnected' = FALSE
  /\ reconnectTimeout' = Null
  /\ accountUpdateInterval' = FALSE
  /\ wss' = FALSE
  /\ disconnected' = (disconnected \/ isConnected)
  /\ UNCHANGED <<reconnectAttempts, reconnected>>
  /\ UNCHANGED backtestVars

SocketInit ==
  /\ ServiceIdle
  /\ RouteIdle
  /\ ConcIdle
  /\ AnalysisIdle

SocketNext ==
  \/ Initialize
  \/ Connect
  \/ \E s \in 1..Len(sockets) : OnOpen(s)
  \/ \E s \in 1..Len(sockets) : OnError(s)
  \/ \E s \in 1..Len(sockets) : OnClose(s)
  \/ TimerFires
  \/ Disconnect

SocketSpec == SocketInit /\ [][SocketNext]_vars

(***************************************************************************)
(* Properties of the execution simulator.                                  *)
(***************************************************************************)
InLoop == pc \in {"signal", "stops", "end"}

IsOpen == currentPosition # NoPosition

LastSignal == signals[Len(signals)]

LastTrade == trades[Len(trades)]

\* the signal logged for the candle with this openTime
SignalOf(openTime) == signals[openTime - requiredCandles]

\* the close of the candle with this openTime
CloseOf(openTime) == candles[openTime].close

\* integer form of the threshold tests, entry and close being whole prices
BreachesStopLoss(entry, close) == (close - entry) * 100 <= -config.stopLoss * entry

BreachesTakeProfit(entry, close) == (close - entry) * 100 >= config.takeProfit * entry

\* the signal step that has just logged a signal
SignalStep == pc = "signal" /\ Len(signals') = Len(signals) + 1

NewSignal == signals'[Len(signals')]

\* C1: at every point of the run at most one position is open, and it is
\* open exactly when one more position has been opened than closed,
\* whatever config.maxPositions is.
C1_AtMostOnePosition ==
  /\ opens - Len(trades) \in {0, 1}
  /\ InLoop => (IsOpen <=> opens - Len(trades) = 1)

C1_Witness ==
  /\ pc = "stops"
  /\ config.maxPositions = 2
  /\ IsOpen
  /\ currentPosition.entryTime < CandleAt(i).openTime
  /\ LastSignal.action = "BUY"
  /\ LastSignal.confidence >= 50

\* C2: when executeBacktest returns, every position opened during the run
\* is one closed trade of the returned list.
C2_NoDanglingPosition ==
  pc = "done" =>
    /\ Len(trades) = opens
    /\ Cardinality({trades[k].entryTime : k \in 1..Len(trades)}) = opens

C2_Witness ==
  /\ pc = "done"
  /\ opens = 2
  /\ LastTrade.exitReason = "END_OF_DATA"

\* C3 as stated: a position open when the final candle begins is closed by
\* exactly one END_OF_DATA trade.
C3_OpenIntoFinalEndsByEndOfData ==
  (pc = "done" /\ openIntoFinal) =>
    /\ Cardinality({k \in 1..Len(trades) : trades[k].exitReason = "END_OF_DATA"}) = 1
    /\ LastTrade.exitReason = "END_OF_DATA"
    /\ LastTrade.entryTime < candles[Len(candles)].openTime

\* C3 (amended): a position still open after the final candle has been
\* processed is closed by exactly one END_OF_DATA trade, the last of the
\* list, at the final candle; no other trade has that exit reason.
C3_StillOpenEndsByEndOfData ==
  LET ends == {k \in 1..Len(trades) : trades[k].exitReason = "END_OF_DATA"} IN
    /\ pc # "done" => ends = {}
    /\ (pc = "done" /\ ~IsOpen) => ends = {}
    /\ (pc = "done" /\ IsOpen) =>
         /\ ends = {Len(trades)}
         /\ LastTrade.entryTime = currentPosition.entryTime
         /\ LastTrade.exitTime = candles[Len(candles)].openTime

C3_Witness ==
  /\ pc = "done"
  /\ openIntoFinal
  /\ IsOpen
  /\ LastTrade.exitReason = "END_OF_DATA"

\* C4: no candle produces two closing trades: the trades of a run have
\* pairwise different exit candles, the END_OF_DATA trade included.
C4_OneClosePerCandle ==
  \A j, k \in 1..Len(trades) :
    j # k => trades[j].exitTime # trades[k].exitTime

C4_Witness ==
  /\ pc = "done"
  /\ Len(trades) >= 1
  /\ LastTrade.exitReason = "SIGNAL"
  /\ LastTrade.exitTime = candles[Len(candles)].openTime
  /\ BreachesStopLoss(LastTrade.entryPrice[1], CloseOf(LastTrade.exitTime))

\* a trade closed on a later candle than its entry, on which a qualifying
\* SELL arrived and the stop-loss or take-profit threshold was breached
SellAndBreach(t) ==
  /\ t.entryTime < t.exitTime
  /\ SignalOf(t.exitTime).action = "SELL"
  /\ SignalOf(t.exitTime).confidence >= 50
  /\ \/ BreachesStopLoss(t.entryPrice[1], CloseOf(t.exitTime))
     \/ BreachesTakeProfit(t.entryPrice[1], CloseOf(t.exitTime))

\* C5 as stated: on a candle with a qualifying SELL and a breached
\* threshold the trade is a STOP_LOSS or TAKE_PROFIT close.
C5_StopsOverrideSell ==
  \A k \in 1..Len(trades) :
    SellAndBreach(trades[k]) =>
      trades[k].exitReason \in {"STOP_LOSS", "TAKE_PROFIT"}

\* C5 (amended): on a candle with a qualifying SELL and a breached
\* threshold the SELL close comes first: the trade has exitReason SIGNAL.
C5_SellBeforeStops ==
  \A k \in 1..Len(trades) :
    SellAndBreach(trades[k]) => trades[k].exitReason = "SIGNAL"

C5_Witness ==
  /\ Len(trades) >= 1
  /\ SellAndBreach(LastTrade)
  /\ BreachesTakeProfit(LastTrade.entryPrice[1], CloseOf(LastTrade.exitTime))
  /\ LastTrade.exitReason = "SIGNAL"

\* C6: after a candle has been processed, a position that is still open is
\* strictly inside both thresholds at that candle's close.
C6_OpenPositionInsideThresholds ==
  (pc \in {"signal", "end"} /\ i > requiredCandles /\ IsOpen) =>
    LET entry == currentPosition.entryPrice[1]
        close == CandleAt(i - 1).close
    IN  /\ (close - entry) * 100 > -config.stopLoss * entry
        /\ (close - entry) * 100 < config.takeProfit * entry

C6_Witness ==
  /\ pc \in {"signal", "end"}
  /\ i > requiredCandles
  /\ IsOpen
  /\ currentPosition.entryTime < CandleAt(i - 1).openTime
  /\ CandleAt(i - 1).close # currentPosition.entryPrice[1]
  /\ LastSignal.action = "BUY"
  /\ LastSignal.confidence >= 50

\* C7: a signal below the confidence threshold changes nothing but the
\* log; a BUY at exactly the threshold opens when flat and a SELL at
\* exactly the threshold closes with exitReason SIGNAL when in position.
C7_ConfidenceGate ==
  [][SignalStep =>
       /\ NewSignal.confidence < 50 =>
            /\ currentPosition' = currentPosition
            /\ trades' = trades
            /\ balance' = balance
            /\ opens' = opens
       /\ (NewSignal.confidence = 50 /\ NewSignal.action = "BUY" /\ ~IsOpen) =>
            /\ currentPosition' # NoPosition
            /\ opens' = opens + 1
       /\ (NewSignal.confidence = 50 /\ NewSignal.action = "SELL" /\ IsOpen) =>
            /\ currentPosition' = NoPosition
            /\ Len(trades') = Len(trades) + 1
            /\ trades'[Len(trades')].exitReason = "SIGNAL"]_vars

C7_Witness ==
  /\ pc = "stops"
  /\ Len(signals) = 3
  /\ signals[1].action = "BUY" /\ signals[1].confidence < 50
  /\ signals[2].action = "BUY" /\ signals[2].confidence = 50
  /\ signals[3].action = "SELL" /\ signals[3].confidence < 50
  /\ trades = <<>>
  /\ IsOpen
  /\ currentPosition.entryTime = signals[2].timestamp

\* C8: a qualifying BUY while in position and a qualifying SELL while flat
\* change nothing but the signal log, and a position is only ever opened
\* by the qualifying BUY of the candle being processed, while flat.
C8_IgnoredSignals ==
  [][/\ (SignalStep /\ Qualifies(NewSignal) /\ NewSignal.action = "BUY" /\ IsOpen) =>
          /\ currentPosition' = currentPosition
          /\ trades' = trades
          /\ balance' = balance
          /\ signals' = Append(signals, NewSignal)
     /\ (SignalStep /\ Qualifies(NewSignal) /\ NewSignal.action = "SELL" /\ ~IsOpen) =>
          /\ currentPosition' = NoPosition
          /\ trades' = trades
          /\ balance' = balance
          /\ signals' = Append(signals, NewSignal)
     /\ (opens' # opens \/ (~IsOpen /\ currentPosition' # NoPosition)) =>
          /\ SignalStep
          /\ ~IsOpen
          /\ NewSignal.action = "BUY"
          /\ NewSignal.confidence >= 50
          /\ currentPosition'.entryTime = CandleAt(i).openTime]_vars

C8_Witness ==
  /\ pc = "stops"
  /\ Len(signals) = 3
  /\ \A k \in 1..3 : signals[k].confidence >= 50
  /\ signals[1].action = "SELL"
  /\ signals[2].action = "BUY"
  /\ signals[3].action = "BUY"
  /\ trades = <<>>
  /\ IsOpen
  /\ currentPosition.entryTime = signals[2].timestamp

\* C9: the simulator is long-only: every trade and the open position have
\* type BUY and were opened on a candle whose signal was BUY.
C9_LongOnly ==
  /\ \A k \in 1..Len(trades) :
       /\ trades[k].type = "BUY"
       /\ SignalOf(trades[k].entryTime).action = "BUY"
  /\ (InLoop /\ IsOpen) =>
       /\ currentPosition.type = "BUY"
       /\ SignalOf(currentPosition.entryTime).action = "BUY"

C9_Witness ==
  /\ pc = "stops"
  /\ LastSignal.action = "SELL"
  /\ LastSignal.confidence >= 50
  /\ ~IsOpen
  /\ Len(trades) = 1
  /\ LastTrade.exitTime < CandleAt(i).openTime

\* C10: every trade satisfies netPnl = pnl - entryFees - exitFees and
\* netPnlPercentage = netPnl / (entryPrice * quantity) * 100.
C10_NetPnlIdentity ==
  \A k \in 1..Len(trades) :
    LET t == trades[k] IN
      /\ t.netPnl = RSub(RSub(t.pnl, t.entryFees), t.exitFees)
      /\ t.netPnlPercentage =
           RMul(RDiv(t.netPnl, RMul(t.entryPrice, t.quantity)), RInt(100))

C10_Witness ==
  /\ Len(trades) = 2
  /\ trades[1].exitReason = "TAKE_PROFIT"
  /\ trades[2].exitReason = "END_OF_DATA"
  /\ trades[1].entryFees[1] > 0
  /\ trades[2].exitFees[1] > 0

\* C11: every closed trade has exitTime >= entryTime, and its exitTime is
\* the openTime of a candle, never the 0 written when the position opened.
C11_ExitNotBeforeEntry ==
  \A k \in 1..Len(trades) :
    /\ trades[k].exitTime >= trades[k].entryTime
    /\ trades[k].exitTime # 0
    /\ \E c \in 1..Len(candles) : trades[k].exitTime = candles[c].openTime

C11_Witness ==
  /\ pc = "done"
  /\ Len(trades) = 2
  /\ trades[1].exitTime > trades[1].entryTime
  /\ trades[2].exitTime = trades[2].entryTime
  /\ trades[2].exitReason = "END_OF_DATA"

RECURSIVE SumNetPnl(_)
SumNetPnl(n) == IF n = 0 THEN RInt(0) ELSE RAdd(SumNetPnl(n - 1), trades[n].netPnl)

\* the notional a position record was sized from: what it bought plus the fee
NotionalOf(pos) ==
  RAdd(RMul(pos.quantity, RAdd(pos.entryPrice, pos.entrySlippage)), pos.entryFees)

\* C13: at every point of a run balance = initialBalance + the netPnl of the
\* trades closed so far, and every position (closed or open) was sized from
\* the balance running at its open, positionSize percent of it.
C13_RunningBalance ==
  /\ balance = RAdd(RInt(config.initialBalance), SumNetPnl(Len(trades)))
  /\ \A k \in 1..Len(trades) :
       NotionalOf(trades[k]) =
         RMul(RAdd(RInt(config.initialBalance), SumNetPnl(k - 1)),
              Rat(config.positionSize, 100))
  /\ (InLoop /\ IsOpen) =>
       NotionalOf(currentPosition) = RMul(balance, Rat(config.positionSize, 100))

C13_Witness ==
  /\ pc = "stops"
  /\ Len(trades) = 1
  /\ trades[1].netPnl[1] < 0
  /\ IsOpen
  /\ balance # RInt(config.initialBalance)
  /\ currentPosition.entryFees[1] > 0

\* runBacktest has returned
Returned == pc \in {"done", "failed"}

\* a signal that passes the gate: not HOLD and confidence at least 0.5
IsQualifying(sig) == sig.action # "HOLD" /\ sig.confidence >= 50

\* C14: a run that raised nothing and in which no signal qualified (all HOLD
\* or below 0.5, or no candle processed) returns success with zero trades and
\* a PerformanceMetrics object holding all its fields, every one 0.
C14_NoSignalRunSucceeds ==
  ( /\ Returned
    /\ executions = 1
    /\ thrown = "none"
    /\ \A k \in 1..Len(signals) : ~IsQualifying(signals[k]) )
  => /\ DOMAIN response = {"success", "data"}
     /\ response.success = TRUE
     /\ response.data.trades = <<>>
     /\ response.data.signals = signals
     /\ DOMAIN response.data.performance = MetricNames
     /\ \A name \in MetricNames : response.data.performance[name] = RInt(0)

C14_Witness ==
  /\ pc = "done"
  /\ Len(signals) = 2
  /\ signals[1].action = "BUY" /\ signals[1].confidence < 50
  /\ signals[2].action = "HOLD"
  /\ response.success = TRUE
  /\ response.data.performance.totalTrades = RInt(0)

\* C18: an unknown strategy name is answered {success:false, error} with no
\* fetch and no simulation; fewer candles than requiredCandles are answered
\* {success:false, error} with no simulation.
C18_RejectedBeforeWork ==
  /\ (strategy \notin DOMAIN Registry) =>
       /\ fetches = 0
       /\ executions = 0
       /\ Returned => /\ DOMAIN response = {"success", "error"}
                      /\ response.success = FALSE
  /\ (fetches = 1 /\ pc # "fetch" /\ Len(candles) < requiredCandles) =>
       /\ executions = 0
       /\ Returned => /\ DOMAIN response = {"success", "error"}
                      /\ response.success = FALSE

C18_Witness ==
  /\ pc = "failed"
  /\ thrown = "none"
  /\ requiredCandles = 2
  /\ Len(candles) = 1
  /\ fetches = 1
  /\ response.success = FALSE

\* C20: runBacktest never rejects; an exception of the provider or of the
\* simulation comes back as one {success:false, error} result without a
\* data field, after a single fetch and at most one simulation.
C20_ExceptionsBecomeFailures ==
  /\ Returned => \/ DOMAIN response = {"success", "data"}
                 \/ DOMAIN response = {"success", "error"}
  /\ (thrown # "none") =>
       /\ pc = "failed"
       /\ DOMAIN response = {"success", "error"}
       /\ response.success = FALSE
       /\ response.error = thrown
       /\ fetches = 1
       /\ executions <= 1

C20_Witness ==
  /\ pc = "failed"
  /\ thrown = "simulation failure"
  /\ Len(trades) = 1
  /\ response = [success |-> FALSE, error |-> "simulation failure"]

\* the closes of the processed candles, candles[requiredCandles ..]
ProcessedCloses ==
  [k \in 1..(Len(candles) - requiredCandles) |-> candles[requiredCandles + k].close]

\* the run of the scenario: closes 100, 95, 100, BUY at 0.9 then nothing
ScenarioRun ==
  /\ config.stopLoss = 3 /\ config.takeProfit = 10 /\ config.slippage = 0
  /\ ProcessedCloses = <<100, 95, 100>>
  /\ Len(signals) = 3
  /\ signals[1].action = "BUY" /\ signals[1].confidence = 90
  /\ signals[2].action = "HOLD"
  /\ signals[3].action = "HOLD"

\* C15: in the scenario the run yields exactly one trade, opened on the
\* first processed candle and closed on the second with exitReason
\* STOP_LOSS, its pnl -5 % of what was bought and its netPnl that less the
\* fees, negative; the third candle opens and closes nothing.
C15_StopLossScenario ==
  (pc = "done" /\ ScenarioRun) =>
    /\ Len(trades) = 1
    /\ response.data.trades = trades
    /\ opens = 1
    /\ trades[1].entryTime = candles[requiredCandles + 1].openTime
    /\ trades[1].exitTime = candles[requiredCandles + 2].openTime
    /\ trades[1].exitReason = "STOP_LOSS"
    /\ trades[1].pnlPercentage = RInt(-5)
    /\ trades[1].pnl =
         RMul(Rat(-5, 100), RMul(trades[1].quantity, trades[1].entryPrice))
    /\ trades[1].netPnl =
         RSub(RSub(trades[1].pnl, trades[1].entryFees), trades[1].exitFees)
    /\ RLt(trades[1].netPnl, RInt(0))
    /\ balance = RAdd(RInt(config.initialBalance), trades[1].netPnl)

C15_Witness ==
  /\ pc = "done"
  /\ ScenarioRun
  /\ config.takerFees = 10
  /\ Len(trades) = 1
  /\ trades[1].exitReason = "STOP_LOSS"
  /\ RLt(RInt(0), trades[1].exitFees)

\* the request carries every required field
Complete == rpc # "idle" /\ body.complete

\* C16: a POST /run whose config has stopLoss = 0, or positionSize = 150, is
\* answered with an error and runBacktest is never invoked for it.
C16_RunRejectsZeroStopLoss ==
  ( /\ endpoint = "run"
    /\ Complete
    /\ (body.config.stopLoss = 0 \/ body.config.positionSize = 150) )
  => /\ serviceCalls = 0
     /\ (rpc = "responded" => status = 400)

\* the numeric bounds of a config as the client sent it
WithinBounds(cfg) ==
  /\ cfg.positionSize > 0 /\ cfg.positionSize <= 100
  /\ cfg.stopLoss > 0
  /\ cfg.takeProfit > 0
  /\ cfg.initialBalance > 0

\* C17: on every endpoint a request whose config violates positionSize in
\* (0,100], stopLoss > 0, takeProfit > 0 or initialBalance > 0 is rejected
\* and the backtest service is never invoked for it.
C17_EveryEndpointValidates ==
  ( /\ endpoint \in Endpoints
    /\ Complete
    /\ ~WithinBounds(body.config) )
  => /\ serviceCalls = 0
     /\ (rpc = "responded" => status = 400)

\* C19: on the endpoints that take a strategy name, a request naming an
\* unknown strategy is answered 400, never 500.
C19_UnknownStrategyIsClientError ==
  ( /\ endpoint \in {"run", "optimize", "monte-carlo", "walk-forward", "risk-metrics"}
    /\ Complete
    /\ body.strategy \notin DOMAIN Registry
    /\ rpc = "responded" )
  => status = 400

\* what a call returns when no other call is in flight
AloneResponse(call) ==
  IF call.strategy \notin DOMAIN Registry THEN FailureResponse("strategy not found")
  ELSE IF call.fails THEN FailureResponse("provider failure")
  ELSE LET inst == NewInstance(call.strategy, call.config)
           cs == MkCandles(call.closes)
       IN  IF Len(cs) < inst.requiredCandles
             THEN FailureResponse("insufficient data")
             ELSE SuccessResponse(executeBacktest(cs, inst, call.plan))

\* C12: with two calls in flight, interleaved at the await, each returns the
\* signals, trades and performance it returns when run alone, and each
\* simulation starts from the initialBalance of its own config.
C12_RunsShareNothing ==
  \A r \in DOMAIN runs :
    runs[r].pc = "done" =>
      /\ runs[r].response = AloneResponse(calls[r])
      /\ (DOMAIN runs[r].response = {"success", "data"}) =>
           runs[r].startBalance = RInt(calls[r].config.initialBalance)

C12_Witness ==
  /\ DOMAIN runs = Callers
  /\ runs[1].pc = "done" /\ runs[2].pc = "done"
  /\ calls[1].config # calls[2].config
  /\ calls[1].strategy # calls[2].strategy
  /\ DOMAIN runs[1].response = {"success", "data"}
  /\ DOMAIN runs[2].response = {"success", "data"}
  /\ Len(runs[1].response.data.trades) = 2
  /\ runs[1].response.data # runs[2].response.data

\* C30: a trade's gross pnl is (exit fill price - entry fill price) *
\* quantity, the entry fill being entry close * (1 + slippage%) and the exit
\* fill exit close * (1 - slippage%).
C30_SymmetricSlippage ==
  \A k \in 1..Len(trades) :
    LET slip == Rat(config.slippage, 100)
        entryFill == RMul(trades[k].entryPrice, RAdd(RInt(1), slip))
        exitFill == RMul(trades[k].exitPrice, RSub(RInt(1), slip))
    IN  trades[k].pnl = RMul(RSub(exitFill, entryFill), trades[k].quantity)

\* C29: every window handed to analyzeSignal during executeBacktest has
\* at least requiredCandles candles, so hasEnoughData holds for it.
C29_WindowsHaveEnoughData ==
  pc = "signal" =>
    /\ hasEnoughData(HistoricalCandles(i), requiredCandles)
    /\ Len(HistoricalCandles(i)) = i + 1
    /\ HistoricalCandles(i)[i + 1] = CandleAt(i)

C29_Witness ==
  /\ pc = "signal"
  /\ requiredCandles = 2
  /\ i = requiredCandles
  /\ Len(HistoricalCandles(i)) = 3
  /\ Len(candles) = 4

(***************************************************************************)
(* Properties of the performance metrics.                                  *)
(***************************************************************************)
\* the length of the longest run of consecutive trades with a net profit
LongestWinningRun(trs) ==
  LET Runs == { <<a, b>> \in (1..Len(trs)) \X (1..Len(trs)) :
                  a <= b /\ \A k \in a..b : RLt(RInt(0), trs[k].netPnl) }
  IN  IF Runs = {} THEN 0
      ELSE CHOOSE n \in 1..Len(trs) :
             /\ \E r \in Runs : r[2] - r[1] + 1 = n
             /\ \A r \in Runs : r[2] - r[1] + 1 <= n

\* C27: in the streak scan a trade whose netPnl is exactly 0 ends the
\* winning streak, so that maxConsecutiveWins is the length of the longest
\* run of consecutive winning trades, and it adds nothing to the losing
\* streak, which no more than the losing trades can make up.
C27_ZeroEndsWinningStreak ==
  performance # NoResponse =>
    /\ performance.maxConsecutiveWins = RInt(LongestWinningRun(sample))
    /\ RLe(performance.maxConsecutiveLosses, RInt(Len(LosingTrades(sample))))

\* all the values of a list are the same
AllEqual(xs) == \A a, b \in 1..Len(xs) : xs[a] = xs[b]

\* the guards of the ratios of a trade list, the deviation ratios being given
RatiosGuarded(trs, metrics, ratios) ==
  /\ Len(LosingTrades(trs)) = 0 =>
       metrics.profitFactor = RInt(0) /\ metrics.netProfitFactor = RInt(0)
  /\ AllEqual([k \in 1..Len(trs) |-> trs[k].pnlPercentage]) =>
       ratios.sharpeRatio = RInt(0)
  /\ AllEqual([k \in 1..Len(trs) |-> trs[k].netPnlPercentage]) =>
       ratios.netSharpeRatio = RInt(0)
  /\ (\A k \in 1..Len(trs) : RGe(trs[k].pnlPercentage, RInt(0))) =>
       ratios.sortinoRatio = RInt(0)
  /\ metrics.netMaxDrawdown = RInt(0) => metrics.calmarRatio = RInt(0)
  /\ \A x \in {metrics.profitFactor, metrics.netProfitFactor, metrics.calmarRatio,
                ratios.sharpeRatio, ratios.netSharpeRatio, ratios.sortinoRatio} :
       IsFiniteNumber(x)

\* C28: every ratio is 0 where its divisor is 0 (the profit factors without
\* a losing trade, the Sharpe ratios when all the returns are equal, the
\* Sortino ratio without a negative return, the Calmar ratio without a net
\* drawdown, the stability score when the window returns do not deviate)
\* and none is NaN or Infinity for a non-empty trade list, the deviations
\* being computed in Number arithmetic.
C28_RatiosGuardDivisionByZero ==
  /\ (performance # NoResponse /\ Len(sample) > 0) =>
       RatiosGuarded(sample, performance, numberRatios)
  /\ stabilityScore # NoResponse =>
       /\ AllEqual(windowReturns) => stabilityScore.number = RInt(0)
       /\ IsFiniteNumber(stabilityScore.number)

\* the same guards with the deviations computed in exact arithmetic
RatiosGuardedInExactArithmetic ==
  /\ (performance # NoResponse /\ Len(sample) > 0) =>
       RatiosGuarded(sample, performance, performance)
  /\ stabilityScore # NoResponse =>
       /\ AllEqual(windowReturns) => stabilityScore.exact = RInt(0)
       /\ IsFiniteNumber(stabilityScore.exact)

(***************************************************************************)
(* Properties of the grid search.                                          *)
(***************************************************************************)
\* the choices of one position in each range
Positions ==
  { ix \in [1..Len(paramValues) -> 1..MaxRangeLength] :
      \A p \in 1..Len(paramValues) : ix[p] <= Len(paramValues[p]) }

\* the values at a choice of positions
ValuesAt(ix) == [p \in 1..Len(paramValues) |-> paramValues[p][ix[p]]]

\* the calls that answered with a success, in the order they were made
Successes ==
  SelectSeq([c \in 1..Len(tested) |-> c], LAMBDA c : tested[c].answer = "success")

\* C21: the combinations are the Cartesian product of the ranges (every
\* choice of one value per range occurs as often as there are positions
\* holding it, so once when the values of a range differ, and nothing else
\* occurs); runBacktest is called once per combination, with the request's
\* config overridden by the combination's values under the parameter's
\* names; and the params recorded for a result are those of its run.
C21_FullCartesianProduct ==
  cursor >= 1 =>
    /\ Len(combinations) = Cardinality(Positions)
    /\ \A c \in 1..Len(combinations) : \E ix \in Positions : combinations[c] = ValuesAt(ix)
    /\ \A ix \in Positions :
         Cardinality({ c \in 1..Len(combinations) : combinations[c] = ValuesAt(ix) })
           = Cardinality({ iy \in Positions : ValuesAt(iy) = ValuesAt(ix) })
    /\ Len(tested) = cursor - 1
    /\ optimization # NoResponse => Len(tested) = Len(combinations)
    /\ \A c \in 1..Len(tested) :
         /\ DOMAIN tested[c].config = DOMAIN RequestConfig
         /\ \A p \in 1..Len(paramNames) :
              tested[c].config[paramNames[p]] = combinations[c][p]
         /\ \A field \in DOMAIN RequestConfig :
              (\A p \in 1..Len(paramNames) : paramNames[p] # field) =>
                tested[c].config[field] = RequestConfig[field]
    /\ Len(results) = Len(Successes)
    /\ \A k \in 1..Len(results) :
         /\ DOMAIN results[k].params = { paramNames[p] : p \in 1..Len(paramNames) }
         /\ \A p \in 1..Len(paramNames) :
              results[k].params[paramNames[p]] =
                tested[Successes[k]].config[paramNames[p]]

\* C21 witness: two ranges of two values each have been searched, four
\* runs made, and a result recorded.
C21_Witness ==
  /\ Len(paramValues) = 2
  /\ paramValues[1] = <<1, 2>> /\ paramValues[2] = <<1, 2>>
  /\ optimization # NoResponse
  /\ Len(tested) = 4
  /\ Len(results) >= 1

\* C22: for a grid search that returns, bestPerformance.netSharpeRatio is
\* the maximum netSharpeRatio over allResults and {bestParams,
\* bestPerformance} is one of allResults.
C22_BestIsMaximum ==
  (optimization # NoResponse /\ "allResults" \in DOMAIN optimization) =>
    /\ \A k \in 1..Len(optimization.allResults) :
         RLe(optimization.allResults[k].performance.netSharpeRatio,
             optimization.bestPerformance.netSharpeRatio)
    /\ \E k \in 1..Len(optimization.allResults) :
         optimization.allResults[k] =
           [params |-> optimization.bestParams,
            performance |-> optimization.bestPerformance]

\* C22 witness: a search has returned whose results differ in their net
\* Sharpe ratio, the best not being the first.
C22_Witness ==
  /\ optimization # NoResponse
  /\ "allResults" \in DOMAIN optimization
  /\ Len(optimization.allResults) >= 2
  /\ optimization.allResults[1].performance.netSharpeRatio = RInt(0)
  /\ optimization.bestPerformance.netSharpeRatio = RInt(1)

\* C23: a failing combination is skipped and the sweep goes on: the
\* results are those of the successful runs in the order of enumeration,
\* every combination has been run when the search ends, and the search
\* throws exactly when no combination succeeded.
C23_FailuresSkipped ==
  /\ \A k \in 1..Len(results) :
       k <= Len(Successes) /\ results[k].params = ParamsOf(combinations[Successes[k]])
  /\ \A k \in 1..Len(Successes) : k <= Len(results)
  /\ optimization # NoResponse =>
       /\ cursor = Len(combinations) + 1
       /\ "thrown" \in DOMAIN optimization <=> Len(Successes) = 0
       /\ "allResults" \in DOMAIN optimization =>
            optimization.allResults = results

\* C23 witness: a search has returned results although one run failed and
\* another threw before a later run succeeded.
C23_Witness ==
  /\ optimization # NoResponse
  /\ "allResults" \in DOMAIN optimization
  /\ Len(tested) = 4
  /\ tested[1].answer = "failure"
  /\ tested[2].answer = "throws"
  /\ tested[3].answer = "success"
  /\ tested[4].answer = "success"
  /\ Len(optimization.allResults) = 2

(***************************************************************************)
(* Properties of the Monte Carlo simulation.                               *)
(***************************************************************************)
RECURSIVE Resamplings(_, _)
\* the sums of count of the returns, drawn with replacement
Resamplings(returns, count) ==
  IF count = 0 THEN { RInt(0) }
  ELSE { RAdd(sum, returns[k]) :
           sum \in Resamplings(returns, count - 1), k \in 1..Len(returns) }

\* C24: every simulated sample is the sum of len(trades) values drawn with
\* replacement from the netPnlPercentage of the run's trades; when the
\* simulation returns, it has produced exactly N samples, and for N >= 1
\* the ladder is ordered, worstCase <= p5 <= p10 <= p25 <= p50 <= p75 <=
\* p90 <= p95 <= bestCase, worstCase and bestCase being the least and the
\* greatest sample.
C24_LadderOrdered ==
  /\ \A k \in 1..Len(samples) :
       samples[k] \in Resamplings(TradeReturns, Len(TradeReturns))
  /\ Len(samples) <= simulations
  /\ (monteCarlo # NoResponse /\ "simulations" \in DOMAIN monteCarlo) =>
       /\ Len(samples) = simulations
       /\ monteCarlo.simulations = simulations
       /\ simulations >= 1 =>
            LET ladder == <<monteCarlo.worstCase,
                            monteCarlo.confidenceIntervals[5],
                            monteCarlo.confidenceIntervals[10],
                            monteCarlo.confidenceIntervals[25],
                            monteCarlo.confidenceIntervals[50],
                            monteCarlo.confidenceIntervals[75],
                            monteCarlo.confidenceIntervals[90],
                            monteCarlo.confidenceIntervals[95],
                            monteCarlo.bestCase>>
            IN  /\ \A k \in 1..8 :
                     /\ ladder[k] # Undefined /\ ladder[k + 1] # Undefined
                     /\ RLe(ladder[k], ladder[k + 1])
                /\ \E k \in 1..Len(samples) : samples[k] = monteCarlo.worstCase
                /\ \E k \in 1..Len(samples) : samples[k] = monteCarlo.bestCase
                /\ \A k \in 1..Len(samples) :
                     /\ RLe(monteCarlo.worstCase, samples[k])
                     /\ RLe(samples[k], monteCarlo.bestCase)

\* C24 witness: three simulations over three trades have returned a ladder
\* whose samples were not drawn in ascending order and whose ends differ.
C24_Witness ==
  /\ monteCarlo # NoResponse
  /\ "simulations" \in DOMAIN monteCarlo
  /\ simulations = 3
  /\ Len(originalResult.data.trades) = 3
  /\ Len(samples) = 3
  /\ RLt(samples[2], samples[1])
  /\ RLt(monteCarlo.worstCase, monteCarlo.confidenceIntervals[50])
  /\ RLt(monteCarlo.confidenceIntervals[50], monteCarlo.bestCase)

(***************************************************************************)
(* Properties of the walk-forward analysis.                                *)
(***************************************************************************)
\* the requests of the periods whose out-of-sample run was asked for
FullRequests ==
  SelectSeq(periodRequests, LAMBDA r : "outOfSample" \in DOMAIN r)

\* C25: in every period the out-of-sample range starts exactly at the end
\* of the in-sample range and shares no candle with it: no candle openTime
\* lies both in [currentStart, inSampleEnd] and in [inSampleEnd,
\* outOfSampleEnd] as they are passed to the data provider.
C25_OutOfSampleDisjoint ==
  \A k \in 1..Len(FullRequests) :
    /\ FullRequests[k].outOfSample.startTime = FullRequests[k].inSample.endTime
    /\ CandlesIn(FullRequests[k].inSample) \cap CandlesIn(FullRequests[k].outOfSample) = {}

\* the part of C25 that the requests do satisfy
OutOfSampleStartsAtInSampleEnd ==
  \A k \in 1..Len(FullRequests) :
    FullRequests[k].outOfSample.startTime = FullRequests[k].inSample.endTime

(***************************************************************************)
(* Properties of the comparison.                                           *)
(***************************************************************************)
\* the entries of the successful runs, by their place in the results
SuccessfulEntries ==
  { k \in 1..Len(comparisonResults) : comparisonResults[k].success }

\* C26: every listed strategy is run, in order, whatever the runs before
\* it answered; a run that fails or throws is recorded with success: false;
\* the ranking holds exactly the successful strategies, by descending
\* netSharpeRatio; bestStrategy is the first of the ranking, or null when
\* no run succeeded.
C26_CompareRanksSuccesses ==
  /\ Len(comparisonResults) <= Len(strategies)
  /\ \A k \in 1..Len(comparisonResults) :
       /\ comparisonResults[k].strategy = strategies[k]
       /\ comparisonResults[k].success <=> "performance" \in DOMAIN comparisonResults[k]
       /\ ~comparisonResults[k].success <=> "error" \in DOMAIN comparisonResults[k]
  /\ comparison # NoResponse =>
       /\ Len(comparisonResults) = Len(strategies)
       /\ comparison.results = comparisonResults
       /\ Len(comparison.ranking) = Cardinality(SuccessfulEntries)
       /\ \E place \in [1..Len(comparison.ranking) -> SuccessfulEntries] :
            /\ \A a, b \in 1..Len(comparison.ranking) : a # b => place[a] # place[b]
            /\ \A a \in 1..Len(comparison.ranking) :
                 comparison.ranking[a] = comparisonResults[place[a]].strategy
            /\ \A a \in 1..(Len(comparison.ranking) - 1) :
                 RGe(comparisonResults[place[a]].performance.netSharpeRatio,
                     comparisonResults[place[a + 1]].performance.netSharpeRatio)
       /\ comparison.bestStrategy =
            IF Len(comparison.ranking) > 0 THEN comparison.ranking[1] ELSE Null

\* C26 witness: of three strategies the first failed, the second succeeded
\* with a lower net Sharpe ratio than the third, and the response ranks
\* the third first.
C26_Witness ==
  /\ comparison # NoResponse
  /\ Len(strategies) = 3
  /\ strategies[2] # strategies[3]
  /\ ~comparisonResults[1].success
  /\ comparisonResults[2].success /\ comparisonResults[3].success
  /\ RLt(comparisonResults[2].performance.netSharpeRatio,
         comparisonResults[3].performance.netSharpeRatio)
  /\ comparison.ranking = <<strategies[3], strategies[2]>>
  /\ comparison.bestStrategy = strategies[3]


(***************************************************************************)
(* Properties of the opening and the closing of a position.                *)
(***************************************************************************)
\* C31: when a position is opened, with notional = running balance *
\* positionSize / 100 and feeRate = makerFees when useMakerFees is true and
\* takerFees otherwise, entryFees = notional * feeRate / 100 and quantity =
\* (notional - entryFees) / (close * (1 + slippage / 100)); the balance is
\* unchanged by the open.
C31_EntryFeeReducesSize ==
  [][(currentPosition = NoPosition /\ currentPosition' # NoPosition) =>
       LET notional == RMul(balance, Rat(config.positionSize, 100))
           feeRate == IF config.useMakerFees THEN config.makerFees
                                             ELSE config.takerFees
           entryFees == RMul(notional, Rat(feeRate, 100))
           fill == RMul(RInt(CandleAt(i).close),
                        RAdd(RInt(1), Rat(config.slippage, 100)))
       IN  /\ currentPosition'.entryFees = entryFees
           /\ currentPosition'.quantity = RDiv(RSub(notional, entryFees), fill)
           /\ balance' = balance]_vars

\* C31 witness: a second position has just been opened from a balance that
\* the first trade changed, under a maker fee and a slippage.
C31_Witness ==
  /\ pc = "stops"
  /\ currentPosition # NoPosition
  /\ currentPosition.entryTime = CandleAt(i).openTime
  /\ opens = 2
  /\ Len(trades) = 1
  /\ balance # RInt(config.initialBalance)
  /\ config.useMakerFees
  /\ currentPosition.entryFees[1] > 0


\* the trade a SELL signal on the candle of its exit would have closed the
\* position of the trade with
AsSignalClose(trade) ==
  SignalTrade(trade, CandleAt(trade.exitTime - 1), config)

\* the trades closed by the stop-loss / take-profit check
StopCloses ==
  { k \in 1..Len(trades) : trades[k].exitReason \in {"STOP_LOSS", "TAKE_PROFIT"} }

\* C32: the Trade of a STOP_LOSS or TAKE_PROFIT close equals the Trade a
\* SIGNAL close of the same position on the same candle would produce in
\* every field except exitReason.
C32_StopsCloseLikeSignal ==
  \A k \in StopCloses :
    [AsSignalClose(trades[k]) EXCEPT !.exitReason = trades[k].exitReason] = trades[k]

\* the part of C32 that the closes do satisfy: every field but pnlPercentage
\* and exitReason
StopsCloseLikeSignalButPnlPercentage ==
  \A k \in StopCloses :
    [AsSignalClose(trades[k]) EXCEPT !.exitReason = trades[k].exitReason,
                                     !.pnlPercentage = trades[k].pnlPercentage]
      = trades[k]


(***************************************************************************)
(* Properties of the signal log and of the order of the trades.            *)
(***************************************************************************)
\* C33: exactly one signal is appended per processed candle, whatever its
\* action or confidence and whether or not it causes a trade; the candles
\* are processed from index requiredCandles to the end of the series, so
\* the returned signals hold one entry for each candle from that index on,
\* in candle order.
C33_OneSignalPerCandle ==
  (executions = 1 /\ pc \in {"signal", "stops", "end", "done"}) =>
    /\ Len(signals) = (IF pc = "stops" THEN i + 1 ELSE i) - requiredCandles
    /\ \A k \in 1..Len(signals) :
         signals[k].timestamp = CandleAt(requiredCandles + k - 1).openTime
    /\ pc \in {"end", "done"} => Len(signals) = Len(candles) - requiredCandles
    /\ pc = "done" => response.data.signals = signals

\* C33 witness: a run over four candles with a window of two has returned
\* two signals, a BUY that opened a position and a SELL below the threshold
\* that caused nothing.
C33_Witness ==
  /\ pc = "done"
  /\ requiredCandles = 2
  /\ Len(candles) = 4
  /\ Len(response.data.signals) = 2
  /\ response.data.signals[1].action = "BUY"
  /\ response.data.signals[1].confidence >= 50
  /\ response.data.signals[2].action = "SELL"
  /\ response.data.signals[2].confidence < 50
  /\ Len(response.data.trades) = 1


(***************************************************************************)
(* Properties of the streak averages.                                      *)
(***************************************************************************)
\* the trade has a net profit, a net loss
IsWin(trade) == RLt(RInt(0), trade.netPnl)

IsLoss(trade) == RLt(trade.netPnl, RInt(0))

\* the maximal runs of consecutive trades of one sign, as <<first, last>>
MaximalRuns(trs, OfSign(_)) ==
  { r \in (1..Len(trs)) \X (1..Len(trs)) :
      /\ r[1] <= r[2]
      /\ \A k \in r[1]..r[2] : OfSign(trs[k])
      /\ r[1] = 1 \/ ~OfSign(trs[r[1] - 1])
      /\ r[2] = Len(trs) \/ ~OfSign(trs[r[2] + 1]) }

\* the mean length of the maximal runs: they partition the trades of the sign
MeanRunLength(trs, OfSign(_)) ==
  LET streaks == MaximalRuns(trs, OfSign)
  IN  IF streaks = {} THEN RInt(0)
      ELSE Rat(Cardinality({ k \in 1..Len(trs) : OfSign(trs[k]) }),
               Cardinality(streaks))

\* C34: averageConsecutiveWins and averageConsecutiveLosses are the mean
\* length of all maximal runs of consecutive winning, respectively losing,
\* trades in chronological order: every streak of either sign is counted
\* when a trade of the opposite sign ends it or when the list ends.
C34_StreakAveragesSymmetric ==
  performance # NoResponse =>
    /\ performance.averageConsecutiveWins = MeanRunLength(sample, IsWin)
    /\ performance.averageConsecutiveLosses = MeanRunLength(sample, IsLoss)

\* the part of C34 that the scan does satisfy: among trades that all win or
\* lose, the average of the winning streaks is the mean length of their runs
WinningStreakAverage ==
  (performance # NoResponse /\ \A k \in 1..Len(sample) : sample[k].netPnl # RInt(0)) =>
    performance.averageConsecutiveWins = MeanRunLength(sample, IsWin)

\* the losing side of C34 among trades that all win or lose
LosingStreakAverage ==
  (performance # NoResponse /\ \A k \in 1..Len(sample) : sample[k].netPnl # RInt(0)) =>
    performance.averageConsecutiveLosses = MeanRunLength(sample, IsLoss)

(***************************************************************************)
(* Properties of the risk metrics.                                         *)
(***************************************************************************)
\* the mean of the k least of the sorted returns, as a magnitude
TailMagnitude(sorted, k) == RAbs(RDiv(SumSeq(sorted, k), RInt(k)))

\* C35: for a non-empty trade list and a confidence level in (0,1) the
\* expected shortfall is the mean magnitude of the returns at or beyond the
\* VaR cutoff: the tail holds the return at rank floor(n * (1 - level)) of
\* the ascending net returns, which is the value calculateVaR reports, and
\* every return below it, so it is never empty and the result is a number.
C35_ShortfallOverVaRTail ==
  (riskMetrics # NoResponse /\ Len(sample) > 0) =>
    LET sorted == SortedNetReturns(sample)
        rank == CutoffIndex(sample, riskMetrics.confidenceLevel)
    IN  /\ riskMetrics.valueAtRisk = RAbs(sorted[rank + 1])
        /\ IsFiniteNumber(riskMetrics.expectedShortfall)
        /\ riskMetrics.expectedShortfall = TailMagnitude(sorted, rank + 1)

\* what the expected shortfall is: the mean magnitude of the returns
\* strictly below the rank of the VaR, and NaN when there is none
ShortfallBelowVaRRank ==
  (riskMetrics # NoResponse /\ Len(sample) > 0) =>
    LET sorted == SortedNetReturns(sample)
        rank == CutoffIndex(sample, riskMetrics.confidenceLevel)
    IN  /\ riskMetrics.valueAtRisk = RAbs(sorted[rank + 1])
        /\ riskMetrics.expectedShortfall =
             IF rank = 0 THEN NaN ELSE TailMagnitude(sorted, rank)


\* C36: the trades of a run are chronological and do not overlap: each
\* trade is entered strictly later than the trade before it was exited, and
\* so is the position that is open during the loop, a position closed on a
\* candle never being re-opened on that candle.
C36_TradesDoNotOverlap ==
  /\ \A k \in 1..(Len(trades) - 1) : trades[k + 1].entryTime > trades[k].exitTime
  /\ (pc \in {"signal", "stops", "end"} /\ currentPosition # NoPosition
        /\ Len(trades) > 0) =>
       currentPosition.entryTime > trades[Len(trades)].exitTime

\* C36 witness: a run has returned two trades, the first closed by a SELL
\* signal and the second opened on the candle right after that close.
C36_Witness ==
  /\ pc = "done"
  /\ Len(trades) = 2
  /\ trades[1].exitReason = "SIGNAL"
  /\ trades[2].entryTime = trades[1].exitTime + 1
  /\ response.data.trades = trades


(***************************************************************************)
(* Properties of the runs the grid search makes.                           *)
(***************************************************************************)
\* C37: a position is never closed by the stop-loss / take-profit check on
\* the candle on which it was opened, for every config that reaches the
\* simulator, the configs of the grid search included.
C37_NoStopOnEntryCandle ==
  \A k \in 1..Len(trades) :
    trades[k].exitReason \in {"STOP_LOSS", "TAKE_PROFIT"} =>
      trades[k].exitTime # trades[k].entryTime

\* what a grid search over stopLoss = 0 gets: every position is closed by
\* the stop-loss check on its entry candle
ZeroStopLossClosesOnEntry ==
  config.stopLoss = 0 =>
    \A k \in 1..Len(trades) :
      /\ trades[k].exitReason = "STOP_LOSS"
      /\ trades[k].exitTime = trades[k].entryTime

(***************************************************************************)
(* Termination of the walk-forward analysis.                               *)
(***************************************************************************)
\* C38: runWalkForwardAnalysis terminates for every windowSize and
\* stepSize the route forwards to it: the call returns or throws in the
\* end.
C38_WalkForwardTerminates == <>(walkForward # NoResponse)

\* the reason C38 gives: the window start advances strictly on every
\* iteration of the loop
WindowStartAdvances ==
  [][oddIteration' # oddIteration /\ walkForward' = NoResponse
       => currentStart' > currentStart]_vars

\* the part of C38 that the loop does satisfy: with a positive step the
\* call terminates
TerminatesWithPositiveStep == (stepMs > 0) => <>(walkForward # NoResponse)


(***************************************************************************)
(* Properties of the upstream connection.                                  *)
(***************************************************************************)
\* C39: once disconnect() has been called on a connected service, whatever
\* the order of the sockets' 'close' and 'error' callbacks around it, no
\* reconnect timer is pending and the timer has not called connect() again
C39_StaysDisconnected ==
  disconnected => (reconnectTimeout # "pending" /\ ~reconnected)

\* the part of it that disconnect() does achieve: as it returns no timer is
\* pending and the service holds no socket
DisconnectClearsTimer ==
  [][Disconnect => (reconnectTimeout' = Null /\ ws' = NoSocket /\ ~isConnected')]_vars

\* the timer callback does run after disconnect() and opens a further socket
NoSocketAfterDisconnect ==
  reconnected => ws = NoSocket

====
